---------------------------- MODULE Spec2Model ----------------------------
(***************************************************************************)
(* Model of the PIV (particle image velocimetry) processing core of the    *)
(* repository: the correlation functions, the interrogation grid and the   *)
(* request pipeline of the two processing servers.                         *)
(*                                                                         *)
(*   server.js      (src/unnamed/part_006)  normalizedCrossCorrelation,    *)
(*                                          extractWindow, computePIVField *)
(*   old server     (src/unnamed/part_007)  phaseCorrelate,                *)
(*                                          applyHanningWindow,            *)
(*                                          processImagePair               *)
(*                                                                         *)
(* Arithmetic.  The code computes in IEEE doubles; the model computes the  *)
(* same quantities exactly, as integers scaled by a positive factor that   *)
(* is common to all the values that are compared with each other:          *)
(*   - a window is a sequence of W*W pixel values, row-major; index k of   *)
(*     the code (0-based) is element k+1 of the sequence;                  *)
(*   - with N = template.length and S = the sum of the template,           *)
(*     templateNorm[k] = (N*template[k] - S) / N, so the model carries     *)
(*     N*templateNorm[k] (TNorm) and N*(search[k] - templateMean) (QNorm); *)
(*   - a correlation score c = sum / (count * templateStd) is carried as   *)
(*     the pair (num, cnt) with c = num / (cnt * N^2 * templateStd);       *)
(*     templateStd > 0 and N^2 > 0 are the same for every offset, so       *)
(*     c1 > c2 iff num1*cnt2 > num2*cnt1.                                  *)
(***************************************************************************)
EXTENDS Integers, Sequences, FiniteSets, TLC

VARIABLES
  \* ---- window level: one call of a correlation function
  template,      \* the template window (from frame A)
  search,        \* the search window (from frame B)
  windowSize,    \* side of the square window
  searchRange,   \* +/- pixels searched
  nccResult,     \* what normalizedCrossCorrelation returned, or NoResult
  phaseResult,   \* what the apodized phaseCorrelate path returned, or NoResult
  \* ---- request level: server.js computePIVField
  config,        \* the configuration value the call runs with
  image1,        \* frame A: [width, height, pixels]
  image2,        \* frame B
  pc,            \* position of computePIVField
  gx, gy,        \* loop variables x and y of the grid loops
  visited,       \* origins of the windows the loop body ran on, in order
  vectors,       \* the vectors array
  outcome,       \* "none" | "returned" | "error"
  route,         \* the endpoint of the request: "process" | "realtime"
  response,      \* the body of the response, or NoResult
  \* ---- request level: old server processImagePair
  pairFrame,     \* the frame pair given to processImagePair
  pairWindows,   \* origins (padded coordinates) of the windows it visited
  pairOrigins,   \* the centres it pushed (originsX, originsY)
  pairVectors,   \* the shifts it pushed (vectorsX, vectorsY)
  pairOutcome,   \* "none" | "returned" | "error"
  pairResult,    \* the calibration sent and what processImagePair returned
  \* ---- request level: old server POST /batch-process
  batchFiles,    \* req.files: the decoded frames, in upload order
  batchResponse, \* the body of the response, or NoResult
  \* ---- field level: one field given to the filters and the statistics
  field,         \* the vectors: [x, y, u, v]
  madResult,     \* what removeOutliers returned, or NoResult
  statsResult,   \* what calculateStatistics returned, or NoResult
  localResult,   \* what lines 228-298 of processImagePair give, or NoResult
  \* ---- server level: the handlers of server.js and their shared state
  PIV_CONFIG,    \* the configuration object of lines 37-53
  clock,         \* Date.now()
  requests,      \* per request: its input, its position and its locals
  resultsDir,    \* the files of resultsDir: resultId -> content
  \* ---- Camera2Module: one capture session
  isCapturing,   \* the field isCapturing
  circularBuffer, \* the queue, oldest frame first
  arrived,       \* the frames processYPlane has offered, in order
  callbackPc,    \* position of processYPlane on the background thread
  yData,         \* the frame processYPlane holds
  stopPc,        \* position of stopCapture on the module thread
  frameCount,    \* val frameCount of stopCapture
  frames,        \* val frames of stopCapture, the drained buffer
  frameFiles,    \* the frame files written to outputDir
  metadata,      \* the Frame Count line of metadata.txt, or NoResult
  \* ---- the padding of processImagePair on one frame
  padFrame,      \* the decoded frame
  padResult      \* the padded buffer built from it, or NoResult

vars == << template, search, windowSize, searchRange, nccResult,
           phaseResult, config, image1, image2, pc, gx, gy, visited, vectors,
           outcome, route, response, pairFrame, pairWindows, pairOrigins,
           pairVectors, pairOutcome, pairResult, batchFiles, batchResponse,
           field, madResult, statsResult, localResult, PIV_CONFIG, clock,
           requests, resultsDir, isCapturing, circularBuffer, arrived,
           callbackPc, yData, stopPc, frameCount, frames, frameFiles,
           metadata, padFrame, padResult >>

corrVars == << template, search, windowSize, searchRange, nccResult,
               phaseResult >>
gridVars == << config, image1, image2, pc, gx, gy, visited, vectors, outcome,
              route, response >>
pairVars == << pairFrame, pairWindows, pairOrigins, pairVectors, pairOutcome,
              pairResult >>
batchVars == << batchFiles, batchResponse >>
filterVars == << field, madResult, statsResult, localResult >>
serverVars == << PIV_CONFIG, clock, requests, resultsDir >>
cameraVars == << isCapturing, circularBuffer, arrived, callbackPc, yData,
                stopPc, frameCount, frames, frameFiles, metadata >>

NoResult == [none |-> TRUE]

(***************************************************************************)
(* Bounds of the model.                                                    *)
(***************************************************************************)
MaxPix == 1          \* pixel values are 0..MaxPix
MaxRange == 2        \* searchRange is 1 or MaxRange
CorrWindowSizes == {1, 2}     \* window sides with arbitrary contents
FeatureWindowSizes == {4}     \* window sides of the single-feature windows

Abs(n) == IF n < 0 THEN -n ELSE n

\* An array filled element by element: the function f with its values
\* computed once (TLC would otherwise recompute an element at every read).
Filled(f) == f @@ << >>

RECURSIVE SeqSum(_)
SeqSum(s) == IF s = << >> THEN 0 ELSE Head(s) + SeqSum(Tail(s))

(***************************************************************************)
(* normalizedCrossCorrelation, src/unnamed/part_006:121-165                *)
(***************************************************************************)

\* N * templateNorm[k]  (lines 127-128), k 0-based; S is the template's sum
TNorm(t, S, k) == Len(t) * t[k + 1] - S

\* N * (search[k] - templateMean)  (line 146), k 0-based
QNorm(t, S, s, k) == Len(t) * s[k + 1] - S

\* N^3 * templateStd^2  (lines 129-131): the sum of the squares of TNorm
RECURSIVE TSquaresUpTo(_, _, _)
TSquaresUpTo(t, S, k) ==
  IF k = 0 THEN 0
  ELSE TSquaresUpTo(t, S, k - 1) + TNorm(t, S, k - 1) * TNorm(t, S, k - 1)

TSquares(t) == TSquaresUpTo(t, SeqSum(t), Len(t))

\* templateStd === 0  (line 133)
TemplateFlat(t) == TSquares(t) = 0

\* The search index the code pairs with template pixel (i, j) (line 143)
NCCSearchIdx(W, dx, dy, i, j) == (j + dy) * W + (i + dx)

\* The bounds test of line 144
NCCInRange(s, W, dx, dy, i, j) ==
  /\ NCCSearchIdx(W, dx, dy, i, j) >= 0
  /\ NCCSearchIdx(W, dx, dy, i, j) < Len(s)

\* The two inner loops (lines 141-150) over template indices 0..k-1:
\* the accumulated correlation (scaled by N^2) and count.
RECURSIVE NCCAccumulate(_, _, _, _, _, _, _)
NCCAccumulate(t, S, s, W, dx, dy, k) ==
  IF k = 0 THEN [num |-> 0, cnt |-> 0]
  ELSE LET prev == NCCAccumulate(t, S, s, W, dx, dy, k - 1)
           i == (k - 1) % W
           j == (k - 1) \div W
       IN IF NCCInRange(s, W, dx, dy, i, j)
          THEN [num |-> prev.num
                        + TNorm(t, S, k - 1)
                          * QNorm(t, S, s, NCCSearchIdx(W, dx, dy, i, j)),
                cnt |-> prev.cnt + 1]
          ELSE prev

NCCScore(t, s, W, dx, dy) == NCCAccumulate(t, SeqSum(t), s, W, dx, dy, W * W)

\* The offset the m-th iteration of the two outer loops works on
\* (lines 135-136): dy is the outer loop, dx the inner, both from -R up.
OffsetDx(R, m) == (m % (2 * R + 1)) - R
OffsetDy(R, m) == (m \div (2 * R + 1)) - R
OffsetCount(R) == (2 * R + 1) * (2 * R + 1)

\* correlation > maxCorr  (line 155); best.set = FALSE is maxCorr = -Infinity
ScoreGreater(sc, best) ==
  \/ ~best.set
  \/ sc.num * best.cnt > best.num * sc.cnt

\* (maxCorr, bestDx, bestDy) before the loops (lines 122-124)
NCCStart == [set |-> FALSE, dx |-> 0, dy |-> 0, num |-> 0, cnt |-> 1]

\* The offset loops (lines 135-162) from offset number m on, entered with
\* (maxCorr, bestDx, bestDy) = best; the value is the state they end in.
RECURSIVE NCCLoop(_, _, _, _, _, _)
NCCLoop(t, s, W, R, best, m) ==
  IF m = OffsetCount(R) THEN best
  ELSE LET dx == OffsetDx(R, m)
           dy == OffsetDy(R, m)
           sc == NCCScore(t, s, W, dx, dy)
       IN IF sc.cnt > 0 /\ ScoreGreater(sc, best)
          THEN NCCLoop(t, s, W, R, [set |-> TRUE, dx |-> dx, dy |-> dy,
                                    num |-> sc.num, cnt |-> sc.cnt], m + 1)
          ELSE NCCLoop(t, s, W, R, best, m + 1)

\* normalizedCrossCorrelation without the early return of line 133: with
\* templateStd = 0 every score is 0/0 = NaN, no offset passes the test of
\* line 155, and the function returns (0, 0) with maxCorr = -Infinity.
NCCWithoutFlatGuard(t, s, W, R) ==
  IF TemplateFlat(t)
  THEN [flat |-> FALSE, set |-> FALSE, dx |-> 0, dy |-> 0, num |-> 0, cnt |-> 1]
  ELSE LET best == NCCLoop(t, s, W, R, NCCStart, 0)
       IN [flat |-> FALSE, set |-> best.set, dx |-> best.dx, dy |-> best.dy,
           num |-> best.num, cnt |-> best.cnt]

\* The returned object { dx, dy, correlation }.  flat: the early return of
\* line 133 (correlation 0); otherwise correlation is
\* num / (cnt * N^2 * templateStd), or -Infinity when set is FALSE.
normalizedCrossCorrelation(t, s, W, R) ==
  IF TemplateFlat(t)
  THEN [flat |-> TRUE, set |-> TRUE, dx |-> 0, dy |-> 0, num |-> 0, cnt |-> 1]
  ELSE LET best == NCCLoop(t, s, W, R, NCCStart, 0)
       IN [flat |-> FALSE, set |-> best.set, dx |-> best.dx, dy |-> best.dy,
           num |-> best.num, cnt |-> best.cnt]

\* The score of every offset of the search, as the loop computes it
NCCSurface(t, s, W, R) ==
  Filled([d \in (-R..R) \X (-R..R) |-> NCCScore(t, s, W, d[1], d[2])])

\* correlation >= p/q for a returned object r of template t (p, q > 0):
\* num / (cnt * N^2 * std) >= p/q  with  N^3 * std^2 = TSquares.
CorrAtLeast(r, t, p, q) ==
  /\ ~r.flat
  /\ r.set
  /\ r.num > 0
  /\ q * q * r.num * r.num >= p * p * Len(t) * r.cnt * r.cnt * TSquares(t)

(***************************************************************************)
(* applyHanningWindow, src/unnamed/part_007:132-145                        *)
(*                                                                         *)
(* 0.5 * (1 - cos(2*pi*x / (n - 1))) is rational for the window sides of   *)
(* the model; HanningQ is 4 times it.  For n = 1 the code divides 0 by 0:  *)
(* the weight is NaN.                                                      *)
(***************************************************************************)
HanningIsNaN(n) == n = 1

HanningQ(n, x) ==
  CASE n = 2 -> 0
    [] n = 3 -> <<0, 4, 0>>[x + 1]
    [] n = 4 -> <<0, 3, 3, 0>>[x + 1]
    [] n = 5 -> <<0, 2, 4, 2, 0>>[x + 1]
    [] n = 7 -> <<0, 1, 3, 4, 3, 1, 0>>[x + 1]

\* windowed[idx] = data[idx] * hanningX * hanningY, times HanningScale
HanningScale == 16

applyHanningWindow(data, width, height) ==
  Filled([k \in 1..Len(data) |->
            data[k] * HanningQ(width, (k - 1) % width)
                    * HanningQ(height, (k - 1) \div width)])

(***************************************************************************)
(* phaseCorrelate, src/unnamed/part_007:72-110                             *)
(***************************************************************************)
PhaseSearchRange == 2    \* const searchRange = 16, scaled with the windows

\* The bounds test of line 90
PhaseInRange(width, height, sx, sy) ==
  sx >= 0 /\ sx < width /\ sy >= 0 /\ sy < height

\* The two inner loops (lines 85-97) over template indices 0..k-1
RECURSIVE PhaseAccumulate(_, _, _, _, _, _, _)
PhaseAccumulate(t, s, width, height, dx, dy, k) ==
  IF k = 0 THEN [num |-> 0, cnt |-> 0]
  ELSE LET prev == PhaseAccumulate(t, s, width, height, dx, dy, k - 1)
           x == (k - 1) % width
           y == (k - 1) \div width
           sx == x + dx
           sy == y + dy
       IN IF PhaseInRange(width, height, sx, sy)
          THEN [num |-> prev.num + t[y * width + x + 1] * s[sy * width + sx + 1],
                cnt |-> prev.cnt + 1]
          ELSE prev

PhaseScore(t, s, width, height, dx, dy) ==
  PhaseAccumulate(t, s, width, height, dx, dy, width * height)

\* (maxCorr, bestX, bestY) before the loops (lines 74-76).  scale2 is the
\* factor the products carry; maxCorr = -1 is (-scale2, 1).
PhaseStart(scale2) == [x |-> 0, y |-> 0, num |-> -scale2, cnt |-> 1]

\* The offset loops (lines 80-107) from offset number m on, entered with
\* (maxCorr, bestX, bestY) = best; the value is the state they end in.
\* count = 0 makes correlation NaN (line 99) and the test of line 101 false.
RECURSIVE PhaseLoop(_, _, _, _, _, _, _)
PhaseLoop(t, s, width, height, R, best, m) ==
  IF m = OffsetCount(R) THEN best
  ELSE LET dx == OffsetDx(R, m)
           dy == OffsetDy(R, m)
           sc == PhaseScore(t, s, width, height, dx, dy)
       IN IF sc.cnt > 0 /\ sc.num * best.cnt > best.num * sc.cnt
          THEN PhaseLoop(t, s, width, height, R,
                         [x |-> dx, y |-> dy, num |-> sc.num, cnt |-> sc.cnt],
                         m + 1)
          ELSE PhaseLoop(t, s, width, height, R, best, m + 1)

\* The returned object { x: bestX, y: -bestY, correlation } (line 109);
\* correlation = num / (cnt * scale2).
phaseCorrelate(t, s, width, height, scale2) ==
  LET best == PhaseLoop(t, s, width, height, PhaseSearchRange,
                        PhaseStart(scale2), 0)
  IN [x |-> best.x, y |-> -best.y, num |-> best.num, cnt |-> best.cnt]

\* Lines 213-216 of processImagePair: both windows are apodized, then
\* correlated.  With NaN weights every product is NaN and no offset passes
\* the test of line 101.
ApodizedCorrelate(t, s, width, height) ==
  IF HanningIsNaN(width) \/ HanningIsNaN(height)
  THEN [x |-> 0, y |-> 0, num |-> -1, cnt |-> 1]
  ELSE phaseCorrelate(applyHanningWindow(t, width, height),
                      applyHanningWindow(s, width, height),
                      width, height, HanningScale * HanningScale)

(***************************************************************************)
(* Window-level specification: one template/search pair is given to each   *)
(* correlation function.                                                   *)
(***************************************************************************)

\* A W x W window, all 0 but for value b at (px, py)
FeatureWindow(W, px, py, b) ==
  [k \in 1..(W * W) |-> IF k - 1 = py * W + px THEN b ELSE 0]

GridIdle ==
  /\ config = NoResult
  /\ image1 = NoResult
  /\ image2 = NoResult
  /\ pc = "idle"
  /\ gx = 0
  /\ gy = 0
  /\ visited = << >>
  /\ vectors = << >>
  /\ outcome = "none"
  /\ route = "none"
  /\ response = NoResult

PairIdle ==
  /\ pairFrame = NoResult
  /\ pairWindows = << >>
  /\ pairOrigins = << >>
  /\ pairVectors = << >>
  /\ pairOutcome = "none"
  /\ pairResult = NoResult

BatchIdle ==
  /\ batchFiles = << >>
  /\ batchResponse = NoResult

FilterIdle ==
  /\ field = << >>
  /\ madResult = NoResult
  /\ statsResult = NoResult
  /\ localResult = NoResult

padVars == << padFrame, padResult >>

\* No server.js process is running
ServerIdle ==
  /\ PIV_CONFIG = NoResult
  /\ clock = 0
  /\ requests = << >>
  /\ resultsDir = << >>

\* No Camera2Module exists
CameraIdle ==
  /\ isCapturing = FALSE
  /\ circularBuffer = << >>
  /\ arrived = << >>
  /\ callbackPc = "none"
  /\ yData = 0
  /\ stopPc = "none"
  /\ frameCount = 0
  /\ frames = << >>
  /\ frameFiles = << >>
  /\ metadata = NoResult

PadIdle ==
  /\ padFrame = NoResult
  /\ padResult = NoResult

InitCorr ==
  /\ searchRange \in {1, MaxRange}
  /\ \/ /\ windowSize \in CorrWindowSizes
        /\ template \in [1..(windowSize * windowSize) -> 0..MaxPix]
        /\ search \in [1..(windowSize * windowSize) -> 0..MaxPix]
     \/ /\ windowSize \in FeatureWindowSizes
        /\ \E px \in 0..(windowSize - 1), py \in 0..(windowSize - 1),
              sx \in (-searchRange)..searchRange,
              sy \in (-searchRange)..searchRange, b \in {MaxPix} :
             /\ px + sx \in 0..(windowSize - 1)
             /\ py + sy \in 0..(windowSize - 1)
             /\ template = FeatureWindow(windowSize, px, py, b)
             /\ search = FeatureWindow(windowSize, px + sx, py + sy, b)
  /\ nccResult = NoResult
  /\ phaseResult = NoResult
  /\ GridIdle
  /\ PairIdle
  /\ BatchIdle
  /\ FilterIdle
  /\ ServerIdle
  /\ CameraIdle
  /\ PadIdle

\* One call normalizedCrossCorrelation(template, search, windowSize, searchRange)
CallNCC ==
  /\ nccResult = NoResult
  /\ nccResult' = normalizedCrossCorrelation(template, search, windowSize, searchRange)
  /\ UNCHANGED << template, search, windowSize, searchRange, phaseResult >>
  /\ UNCHANGED gridVars
  /\ UNCHANGED pairVars
  /\ UNCHANGED << batchVars, filterVars >>
  /\ UNCHANGED << serverVars, cameraVars, padVars >>

\* One run of lines 213-216 on the pair
CallPhase ==
  /\ phaseResult = NoResult
  /\ phaseResult' = ApodizedCorrelate(template, search, windowSize, windowSize)
  /\ UNCHANGED << template, search, windowSize, searchRange, nccResult >>
  /\ UNCHANGED gridVars
  /\ UNCHANGED pairVars
  /\ UNCHANGED << batchVars, filterVars >>
  /\ UNCHANGED << serverVars, cameraVars, padVars >>

NextCorr == CallNCC \/ CallPhase

SpecCorr == InitCorr /\ [][NextCorr]_vars

(***************************************************************************)
(* Properties of the correlation functions.                                *)
(***************************************************************************)
NCCCalled == nccResult # NoResult
PhaseCalled == phaseResult # NoResult

\* The scores of the call in progress
Surface == NCCSurface(template, search, windowSize, searchRange)

\* Template pixels (i, j) whose shifted position is inside the patch on both axes
Overlap2D(W, dx, dy) ==
  {p \in (0..(W - 1)) \X (0..(W - 1)) :
     /\ 0 <= p[1] + dx /\ p[1] + dx < W
     /\ 0 <= p[2] + dy /\ p[2] + dy < W}

\* Template pixels (i, j) the loop of lines 141-150 lets contribute
NCCContributors(s, W, dx, dy) ==
  {p \in (0..(W - 1)) \X (0..(W - 1)) : NCCInRange(s, W, dx, dy, p[1], p[2])}

\* A window with exactly one non-zero pixel, and the position of that pixel
IsFeature(w) == Cardinality({k \in 1..Len(w) : w[k] # 0}) = 1
FeatureIdx(w) == (CHOOSE k \in 1..Len(w) : w[k] # 0) - 1
FeatureX(w, W) == FeatureIdx(w) % W
FeatureY(w, W) == FeatureIdx(w) \div W

\* search is template with its one feature moved by (ShiftX, ShiftY)
FeaturePair ==
  /\ IsFeature(template)
  /\ IsFeature(search)
  /\ template[FeatureIdx(template) + 1] = search[FeatureIdx(search) + 1]
ShiftX == FeatureX(search, windowSize) - FeatureX(template, windowSize)
ShiftY == FeatureY(search, windowSize) - FeatureY(template, windowSize)

AllEqual(w) == \A k \in 1..Len(w) : w[k] = w[1]
AllZero(w) == \A k \in 1..Len(w) : w[k] = 0

\* The feature is in the part of the window the apodization does not zero
FeatureInside ==
  /\ applyHanningWindow(template, windowSize, windowSize)[FeatureIdx(template) + 1] > 0
  /\ applyHanningWindow(search, windowSize, windowSize)[FeatureIdx(search) + 1] > 0

\* C2 -- Known integer shift: a window whose feature moved by (sx, sy), with
\* |sx|, |sy| within the search range (itself smaller than the window), is
\* reported as (u, v) = (sx, sy) by normalizedCrossCorrelation and by the
\* apodized phaseCorrelate path alike.
C2_KnownShiftBothStrategies ==
  FeaturePair =>
    /\ (NCCCalled /\ searchRange < windowSize
          /\ Abs(ShiftX) <= searchRange /\ Abs(ShiftY) <= searchRange)
         => (nccResult.dx = ShiftX /\ nccResult.dy = ShiftY)
    /\ (PhaseCalled /\ PhaseSearchRange < windowSize /\ FeatureInside
          /\ Abs(ShiftX) <= PhaseSearchRange /\ Abs(ShiftY) <= PhaseSearchRange)
         => (phaseResult.x = ShiftX /\ phaseResult.y = ShiftY)

\* C3 -- Overlap counting: at every offset of the search (search range
\* smaller than the window) the pixels that contribute to the sum and to the
\* count are exactly those whose shifted position is inside the search patch
\* on both axes.
C3_OverlapOnBothAxes ==
  (NCCCalled /\ ~nccResult.flat /\ searchRange < windowSize) =>
    \A d \in DOMAIN Surface :
      /\ NCCContributors(search, windowSize, d[1], d[2])
           = Overlap2D(windowSize, d[1], d[2])
      /\ Surface[d].cnt = Cardinality(Overlap2D(windowSize, d[1], d[2]))

\* score of offset d is strictly greater than that of offset e
SurfaceGreater(d, e) ==
  Surface[d].num * Surface[e].cnt > Surface[e].num * Surface[d].cnt

MaxOffsets ==
  {d \in DOMAIN Surface :
     /\ Surface[d].cnt > 0
     /\ \A e \in DOMAIN Surface :
          Surface[e].cnt > 0 => ~SurfaceGreater(e, d)}

Magnitude2(d) == d[1] * d[1] + d[2] * d[2]

\* d is preferred to e: smaller magnitude, then smaller |dx|
PreferredTo(d, e) ==
  \/ Magnitude2(d) < Magnitude2(e)
  \/ Magnitude2(d) = Magnitude2(e) /\ Abs(d[1]) <= Abs(e[1])

\* C4 -- Tie-breaking: the offset returned attains the highest score and is,
\* among the offsets that do, the one of smallest magnitude, then smallest
\* |dx|; an all-equal score surface returns (0,0), under both functions.
C4_TieBreakSmallestOffset ==
  /\ (NCCCalled /\ searchRange < windowSize /\ ~AllEqual(template)) =>
       /\ << nccResult.dx, nccResult.dy >> \in MaxOffsets
       /\ \A e \in MaxOffsets : PreferredTo(<< nccResult.dx, nccResult.dy >>, e)
  /\ (PhaseCalled /\ PhaseSearchRange < windowSize
        /\ AllZero(applyHanningWindow(template, windowSize, windowSize))) =>
       (phaseResult.x = 0 /\ phaseResult.y = 0)

\* C5 -- Degenerate window: a flat template makes normalizedCrossCorrelation
\* return offset (0,0) with correlation 0, whatever the search patch and range.
C5_FlatTemplateZero ==
  (NCCCalled /\ AllEqual(template)) =>
    /\ nccResult.dx = 0
    /\ nccResult.dy = 0
    /\ nccResult.set
    /\ nccResult.num = 0

C5_Witness ==
  /\ NCCCalled
  /\ AllEqual(template)
  /\ ~AllEqual(search)
  /\ windowSize = 2
  /\ searchRange = 2

\* correlation^2 <= 1 and correlation = 1 for a returned object
CorrWithinUnit(r, t) ==
  r.flat \/ (r.set /\ r.num * r.num <= Len(t) * r.cnt * r.cnt * TSquares(t))
CorrIsOne(r, t) ==
  ~r.flat /\ r.set /\ r.num > 0
          /\ r.num * r.num = Len(t) * r.cnt * r.cnt * TSquares(t)

\* C6 -- Score normalisation: the score normalizedCrossCorrelation returns
\* (search range smaller than the window) is within [-1, 1], and is 1 when
\* the search patch equals a non-flat template.
C6_ScoreUnitScaled ==
  (NCCCalled /\ searchRange < windowSize) =>
    /\ CorrWithinUnit(nccResult, template)
    /\ (search = template /\ ~AllEqual(template)) => CorrIsOne(nccResult, template)

(***************************************************************************)
(* server.js: extractWindow and computePIVField,                           *)
(* src/unnamed/part_006:100-115 and 170-207                                *)
(*                                                                         *)
(* A frame is [width, height, pixels], pixels row-major.  The overlap of   *)
(* the configuration is the fraction overlapQ / OverlapDen.                *)
(***************************************************************************)
MaxDim == 3          \* frames of server.js are at most MaxDim x MaxDim
ContentSizes == {3}  \* sides of the frames of server.js that have content
MaxWin == 3          \* interrogationWindow is 1..MaxWin
FrameShifts == {<<0, 0>>, <<1, 0>>, <<0, 1>>}   \* frame B is frame A moved by one of these
MaxVisits == 4       \* the grid loop body is followed for MaxVisits windows
OverlapDen == 4      \* config.overlap is overlapQ / OverlapDen: 0, 1/4, ..., 1
OutlierThreshold == 3   \* PIV_CONFIG.outlierThreshold
MinCorrNum == 1      \* minimumCorrelation: 0.1
MinCorrDen == 10

\* Reading a typed array outside its length gives undefined, stored as NaN
\* in the Float32Array; pixel values are >= 0, so -1 stands for NaN.
NaNPixel == 0 - 1

\* extractWindow(pixels, width, height, x, y, windowSize)  (lines 100-115):
\* a pixel outside width x height leaves the 0 the Float32Array was created
\* with; one inside is read from pixels, whatever the length of pixels.
extractWindow(pixels, width, height, x, y, W) ==
  Filled([k \in 1..(W * W) |->
            LET px == x + ((k - 1) % W)
                py == y + ((k - 1) \div W)
            IN IF px >= 0 /\ px < width /\ py >= 0 /\ py < height
               THEN IF py * width + px < Len(pixels)
                    THEN pixels[py * width + px + 1]
                    ELSE NaNPixel
               ELSE 0])

\* const step = Math.floor(windowSize * (1 - config.overlap))  (line 175)
GridStep(cfg) ==
  (cfg.interrogationWindow * (OverlapDen - cfg.overlapQ)) \div OverlapDen

\* The inner loop test without the window: x < width
InnerTestUpToWidth(x, img, cfg) == x < img.width

\* The loop tests of lines 179 and 180
OuterTest(y, img, cfg) == y < img.height - cfg.interrogationWindow
InnerTest(x, img, cfg) == x < img.width - cfg.interrogationWindow

\* The vector pushed for a window at (x, y) with correlation result r
\* (lines 195-201); x2, y2 are twice the centre x + windowSize / 2.
GridVector(x, y, cfg, r) ==
  [x2 |-> 2 * x + cfg.interrogationWindow,
   y2 |-> 2 * y + cfg.interrogationWindow,
   u |-> r.dx, v |-> r.dy, num |-> r.num, cnt |-> r.cnt]

\* All-zero frame but for value b at the (1-based) positions of P
BrightFrame(w, h, P, b) ==
  [width |-> w, height |-> h,
   pixels |-> [k \in 1..(w * h) |-> IF k \in P THEN b ELSE 0]]

\* The frames of the model: at most two bright pixels on a dark background
ModelFrames(w, h) ==
  {BrightFrame(w, h, {}, 0)}
    \cup {BrightFrame(w, h, {a, b}, MaxPix) :
            a \in 1..(w * h), b \in 1..(w * h)}

\* The n x n frame with three bright pixels in a corner shape: the first of
\* row 0 and the first two of row 1
CornerFrame(n) == BrightFrame(n, n, {1, n + 1, n + 2}, MaxPix)

\* The frame whose content is that of img moved by (sx, sy); 0 moves in
Translate(img, sx, sy) ==
  [img EXCEPT !.pixels =
     [k \in 1..(img.width * img.height) |->
        LET x == ((k - 1) % img.width) - sx
            y == ((k - 1) \div img.width) - sy
        IN IF x >= 0 /\ x < img.width /\ y >= 0 /\ y < img.height
           THEN img.pixels[y * img.width + x + 1]
           ELSE 0]]

CorrIdle ==
  /\ template = << >>
  /\ search = << >>
  /\ windowSize = 0
  /\ searchRange = 0
  /\ nccResult = NoResult
  /\ phaseResult = NoResult

\* The values PIV_CONFIG can hold when a request arrives (lines 37-53,
\* POST /config of lines 461-464)
Configs ==
  [interrogationWindow : 1..MaxWin,
   overlapQ : 0..OverlapDen,
   searchRange : {1, MaxRange},
   minCorrNum : {MinCorrNum},
   minCorrDen : {MinCorrDen},
   outlierThreshold : {OutlierThreshold},
   subPixelAccuracy : BOOLEAN]

\* coarseConfig of /process-realtime (lines 415-420): PIV_CONFIG with the
\* window of the default configuration, no overlap and half its search range
CoarseConfigs ==
  {[c EXCEPT !.interrogationWindow = 2, !.overlapQ = 0, !.searchRange = 1] :
     c \in Configs}

\* The second frame of a request: the first one moved, or a dark frame one
\* column wider (every pixel the code reads from it exists)
SecondFrames(img) ==
  {Translate(img, d[1], d[2]) : d \in FrameShifts}
    \cup {BrightFrame(img.width + 1, img.height, {}, 0)}

\* A request to server.js: a frame pair and the configuration it runs with.
\* Dark frames come in every size up to MaxDim x MaxDim; frames with content
\* are square, of the sides in ContentSizes.  POST /process runs with
\* PIV_CONFIG, /process-realtime with coarseConfig.
InitServer ==
  /\ \/ \E w \in 1..MaxDim, h \in 1..MaxDim :
          image1 = BrightFrame(w, h, {}, 0)
     \/ \E n \in ContentSizes :
          image1 \in ModelFrames(n, n) \cup {CornerFrame(n)}
  /\ image2 \in SecondFrames(image1)
  /\ \/ route = "process" /\ config \in Configs
     \/ route = "realtime" /\ config \in CoarseConfigs
  /\ pc = "idle"
  /\ gx = 0
  /\ gy = 0
  /\ visited = << >>
  /\ vectors = << >>
  /\ outcome = "none"
  /\ response = NoResult
  /\ CorrIdle
  /\ PairIdle
  /\ BatchIdle
  /\ FilterIdle
  /\ ServerIdle
  /\ CameraIdle
  /\ PadIdle

\* computePIVField is called: lines 171-177, y = 0 and the first outer test
Call ==
  /\ pc = "idle"
  /\ image1 # NoResult
  /\ gy' = 0
  /\ gx' = 0
  /\ IF OuterTest(0, image1, config)
     THEN pc' = "inner" /\ outcome' = outcome
     ELSE pc' = "done" /\ outcome' = "returned"
  /\ UNCHANGED << config, image1, image2, visited, vectors, route, response >>
  /\ UNCHANGED corrVars
  /\ UNCHANGED pairVars
  /\ UNCHANGED << batchVars, filterVars >>
  /\ UNCHANGED << serverVars, cameraVars, padVars >>

\* One run of the loop body (lines 181-202) and x += step
Body ==
  /\ pc = "inner"
  /\ InnerTest(gx, image1, config)
  /\ Len(visited) < MaxVisits
  /\ LET W == config.interrogationWindow
         window1 == extractWindow(image1.pixels, image1.width, image1.height,
                                  gx, gy, W)
         window2 == extractWindow(image2.pixels, image1.width, image1.height,
                                  gx, gy, W)
         result == normalizedCrossCorrelation(window1, window2, W,
                                              config.searchRange)
     IN /\ visited' = Append(visited,
                             [x |-> gx, y |-> gy, window1 |-> window1,
                              window2 |-> window2, result |-> result])
        /\ vectors' = IF CorrAtLeast(result, window1, config.minCorrNum,
                                     config.minCorrDen)
                      THEN Append(vectors, GridVector(gx, gy, config, result))
                      ELSE vectors
  /\ gx' = gx + GridStep(config)
  /\ UNCHANGED << config, image1, image2, pc, gy, outcome, route, response >>
  /\ UNCHANGED corrVars
  /\ UNCHANGED pairVars
  /\ UNCHANGED << batchVars, filterVars >>
  /\ UNCHANGED << serverVars, cameraVars, padVars >>

\* The inner loop ends: y += step and the next outer test; when that fails
\* the function returns vectors (line 206).
RowEnd ==
  /\ pc = "inner"
  /\ ~InnerTest(gx, image1, config)
  /\ gy' = gy + GridStep(config)
  /\ gx' = 0
  /\ IF OuterTest(gy + GridStep(config), image1, config)
     THEN pc' = "inner" /\ outcome' = outcome
     ELSE pc' = "done" /\ outcome' = "returned"
  /\ UNCHANGED << config, image1, image2, visited, vectors, route, response >>
  /\ UNCHANGED corrVars
  /\ UNCHANGED pairVars
  /\ UNCHANGED << batchVars, filterVars >>
  /\ UNCHANGED << serverVars, cameraVars, padVars >>

(***************************************************************************)
(* removeOutliers and calculateStatistics, src/unnamed/part_006:212-274.   *)
(*                                                                         *)
(* A vector has integer components u and v; its magnitude sqrt(u^2 + v^2)  *)
(* is carried as its square Mag2.  Square roots are increasing, so the     *)
(* sort of the magnitudes is the sort of their squares, and the            *)
(* comparisons between deviations |sqrt(a) - sqrt(m)| are decided exactly  *)
(* by squaring (SqrtDiffLeq).                                              *)
(***************************************************************************)
Mag2(v) == v.u * v.u + v.v * v.v

\* sorted[k] of [...s].sort((a, b) => a - b), k 0-based
SortedAt(s, k) ==
  CHOOSE x \in {s[i] : i \in 1..Len(s)} :
    /\ Cardinality({i \in 1..Len(s) : s[i] < x}) <= k
    /\ Cardinality({i \in 1..Len(s) : s[i] <= x}) > k

\* The integer part of sqrt(n), by bisection of lo..hi
RECURSIVE ISqrtIn(_, _, _)
ISqrtIn(n, lo, hi) ==
  IF lo = hi THEN lo
  ELSE LET mid == (lo + hi + 1) \div 2
       IN IF mid * mid <= n THEN ISqrtIn(n, mid, hi)
                            ELSE ISqrtIn(n, lo, mid - 1)

ISqrt(n) == ISqrtIn(n, 0, 46340)

IsSquare(n) == ISqrt(n) * ISqrt(n) = n

\* sqrt(P) - sqrt(Q) <= C, for naturals P, Q and an integer C.  With both
\* roots integers the test is on integers.  Otherwise, for C >= 0 it is
\* D <= 2 C sqrt(Q) with D = P - Q - C^2, and for C < 0 it is
\* 2 |C| sqrt(P) <= E with E = Q - P - C^2; an integer is at most sqrt(X)
\* iff it is at most the integer part of sqrt(X).
SqrtDiffLeq(P, Q, C) ==
  IF IsSquare(P) /\ IsSquare(Q) THEN ISqrt(P) - ISqrt(Q) <= C
  ELSE IF C >= 0
       THEN P - Q - C * C <= ISqrt(4 * C * C * Q)
       ELSE LET E == Q - P - C * C
                X == 4 * C * C * P
            IN E >= 0 /\ (IF IsSquare(X) THEN ISqrt(X) ELSE ISqrt(X) + 1) <= E

\* |sqrt(a) - sqrt(m)| <= k * |sqrt(d) - sqrt(m)|: both sides squared,
\*   a + m - 2 sqrt(a m) <= k^2 (d + m) - 2 k^2 sqrt(d m)
DevWithin(a, m, k, d) ==
  SqrtDiffLeq(4 * k * k * k * k * d * m, 4 * a * m,
              k * k * (d + m) - a - m)

\* |sqrt(a) - sqrt(m)| < k * |sqrt(d) - sqrt(m)|
DevStrictlyWithin(a, m, k, d) ==
  ~SqrtDiffLeq(4 * a * m, 4 * k * k * k * k * d * m,
               a + m - k * k * (d + m))

\* The squared magnitude whose deviation from the median is sortedDev[k]
\* (lines 218-220), for the squared magnitudes ms and the median's square m
DeviationAt(ms, m, k) ==
  CHOOSE d \in {ms[i] : i \in 1..Len(ms)} :
    /\ Cardinality({i \in 1..Len(ms) : ~DevWithin(d, m, 1, ms[i])}) <= k
    /\ Cardinality({i \in 1..Len(ms) : DevWithin(ms[i], m, 1, d)}) > k

\* const median = sorted[Math.floor(sorted.length / 2)]  (line 217)
MedianOf(s) == SortedAt(s, Len(s) \div 2)

\* removeOutliers with < in place of the <= of line 224
removeOutliersStrict(vs, threshold) ==
  IF Len(vs) = 0 THEN vs
  ELSE LET magnitudes == Filled([i \in 1..Len(vs) |-> Mag2(vs[i])])
           median == MedianOf(magnitudes)
           mad == DeviationAt(magnitudes, median, Len(vs) \div 2)
           Kept(v) == DevStrictlyWithin(Mag2(v), median, threshold, mad)
       IN SelectSeq(vs, Kept)

\* removeOutliers(vectors, threshold)  (lines 212-226): the array that
\* vectors.filter returns, the kept vectors in their order.
removeOutliers(vs, threshold) ==
  IF Len(vs) = 0 THEN vs
  ELSE LET magnitudes == Filled([i \in 1..Len(vs) |-> Mag2(vs[i])])
           median == MedianOf(magnitudes)
           mad == DeviationAt(magnitudes, median, Len(vs) \div 2)
           Kept(v) == DevWithin(Mag2(v), median, threshold, mad)
       IN SelectSeq(vs, Kept)

\* The values of the statistics blocks.  A number is the fraction num/den;
\* the fields that hold a square root (stdU, stdV, maxVelocity) carry the
\* fraction under the root.
Number(n, d) == [kind |-> "number", num |-> n, den |-> d]
NaN == [kind |-> "NaN", num |-> 0, den |-> 1]
NegInfinity == [kind |-> "-Infinity", num |-> 0, den |-> 1]

\* The calibration of a request: calibration?.pixelsPerMM is undefined when
\* no calibration was sent.
NoCalibration == [supplied |-> FALSE, pixelsPerMM |-> 0]
Calibration(p) == [supplied |-> TRUE, pixelsPerMM |-> p]

\* The largest element of a non-empty sequence of integers
SeqMax(s) == CHOOSE x \in {s[i] : i \in 1..Len(s)} :
               \A i \in 1..Len(s) : s[i] <= x

\* N * sum of (s[i] - mean)^2, for the N elements of s  (lines 248-249)
SqDev(s) ==
  Len(s) * SeqSum([i \in 1..Len(s) |-> s[i] * s[i]]) - SeqSum(s) * SeqSum(s)

\* sqrt(q) / p for the fraction q under a root
RootOver(q, p) == [q EXCEPT !.den = @ * p * p]

\* calculateStatistics(vectors, pixelsPerMM)  (lines 231-274).
\* avgVelocity is (the sum of the roots of the elements of roots) / den.
\* The keys pixelsPerMM, maxVelocityMM and avgVelocityMM are added by
\* lines 267-271, which the early return of lines 232-243 does not reach.
calculateStatistics(vs, cal) ==
  IF Len(vs) = 0
  THEN [totalVectors |-> 0, validVectors |-> 0,
        meanU |-> Number(0, 1), meanV |-> Number(0, 1),
        stdU |-> Number(0, 1), stdV |-> Number(0, 1),
        maxVelocity |-> Number(0, 1),
        avgVelocity |-> [kind |-> "number", roots |-> << >>, den |-> 1]]
  ELSE LET n == Len(vs)
           us == Filled([i \in 1..n |-> vs[i].u])
           ws == Filled([i \in 1..n |-> vs[i].v])
           velocities == Filled([i \in 1..n |-> Mag2(vs[i])])
           maxVelocity == Number(SeqMax(velocities), 1)
           avgVelocity == [kind |-> "number", roots |-> velocities, den |-> n]
           stats ==
             [totalVectors |-> n, validVectors |-> n,
              meanU |-> Number(SeqSum(us), n), meanV |-> Number(SeqSum(ws), n),
              stdU |-> Number(SqDev(us), n * n),
              stdV |-> Number(SqDev(ws), n * n),
              maxVelocity |-> maxVelocity, avgVelocity |-> avgVelocity]
       IN IF cal.supplied /\ cal.pixelsPerMM # 0
          THEN stats @@
               [pixelsPerMM |-> cal.pixelsPerMM,
                maxVelocityMM |-> RootOver(maxVelocity, cal.pixelsPerMM),
                avgVelocityMM |->
                  [avgVelocity EXCEPT !.den = @ * cal.pixelsPerMM]]
          ELSE stats

\* The calibration a request carries: none, or pixelsPerMM = 2
Calibrations == {NoCalibration, Calibration(2)}

\* computePIVField has returned and the endpoint answers.
\* POST /process (lines 375-393): removeOutliers, calculateStatistics with
\* the calibration of the request, res.json.  /process-realtime (lines
\* 422-430): calculateStatistics(vectors) on the unfiltered vectors; the
\* endpoint reads no calibration.
Respond ==
  /\ pc = "done"
  /\ response = NoResult
  /\ \/ /\ route = "process"
        /\ \E cal \in Calibrations :
             LET filtered == removeOutliers(vectors, config.outlierThreshold)
             IN response' = [success |-> TRUE, calibration |-> cal,
                             vectors |-> filtered,
                             statistics |-> calculateStatistics(filtered, cal)]
     \/ /\ route = "realtime"
        /\ response' = [success |-> TRUE, calibration |-> NoCalibration,
                        vectors |-> vectors,
                        statistics |->
                          calculateStatistics(vectors, NoCalibration)]
  /\ pc' = "responded"
  /\ UNCHANGED << config, image1, image2, gx, gy, visited, vectors, outcome,
                  route >>
  /\ UNCHANGED corrVars
  /\ UNCHANGED pairVars
  /\ UNCHANGED << batchVars, filterVars >>
  /\ UNCHANGED << serverVars, cameraVars, padVars >>

(***************************************************************************)
(* Old server: processImagePair, src/unnamed/part_007:150-303, with the    *)
(* extractWindow of lines 115-127.                                         *)
(*                                                                         *)
(* PIV_PARAMS is the constant of lines 37-46 scaled down with the frames   *)
(* of the model (48x128 windows, step 24, ROI 17..1260 x 0..800 in the     *)
(* source): the step is half the window width, roiXMin is below the first  *)
(* centre, roiXMax and roiYMax cut off the far windows of the largest      *)
(* frames.                                                                 *)
(***************************************************************************)
PIV_PARAMS ==
  [windowWidth |-> 4, windowHeight |-> 4, stepSize |-> 2, threshold |-> 3,
   roiXMin |-> 1, roiXMax |-> 3, roiYMin |-> 0, roiYMax |-> 4]

PairWidths == {2, 4, 6}      \* frame widths given to the old server
PairHeights == {3, 4, 6}     \* frame heights given to the old server

padLeft == PIV_PARAMS.windowWidth \div 2
padRight == PIV_PARAMS.windowWidth \div 2
padTop == PIV_PARAMS.windowHeight \div 2
padBottom == PIV_PARAMS.windowHeight \div 2

\* Lines 181-184: the two reflection tests, one after the other
ReflectCoord(c, n) ==
  LET a == IF c < 0 THEN -c - 1 ELSE c
  IN IF a >= n THEN 2 * n - a - 1 ELSE a

\* srcX and srcY of lines 177-184 for element k (1-based) of the padded
\* buffer of frame fr
PaddedSrcX(fr, k) ==
  ReflectCoord(((k - 1) % (fr.width + padLeft + padRight)) - padLeft,
               fr.width)
PaddedSrcY(fr, k) ==
  ReflectCoord(((k - 1) \div (fr.width + padLeft + padRight)) - padTop,
               fr.height)

\* Lines 168-192: the padded copy of a frame
PaddedFrame(fr) ==
  LET paddedWidth == fr.width + padLeft + padRight
      paddedHeight == fr.height + padTop + padBottom
  IN [width |-> paddedWidth, height |-> paddedHeight,
      pixels |->
        Filled([k \in 1..(paddedWidth * paddedHeight) |->
           LET srcIdx == PaddedSrcY(fr, k) * fr.width + PaddedSrcX(fr, k)
           IN IF srcIdx >= 0 /\ srcIdx < Len(fr.pixels)
              THEN fr.pixels[srcIdx + 1]
              ELSE NaNPixel])]

\* extractWindow(paddedData, x, y, width, height, paddedWidth), lines 115-127
extractWindowPadded(padded, x, y, width, height) ==
  Filled([k \in 1..(width * height) |->
            LET paddedIdx == (y + ((k - 1) \div width)) * padded.width
                             + (x + ((k - 1) % width))
            IN IF paddedIdx >= 0 /\ paddedIdx < Len(padded.pixels)
               THEN padded.pixels[paddedIdx + 1]
               ELSE NaNPixel])

\* The values a loop variable takes: from, from + step, ... while <= last
LoopCount(from, last, step) ==
  IF last < from THEN 0 ELSE ((last - from) \div step) + 1

\* Lines 201-202: the window origins the two loops visit, in order
\* (y outer, x inner), in padded coordinates.
PairGrid(fr) ==
  LET paddedWidth == fr.width + padLeft + padRight
      paddedHeight == fr.height + padTop + padBottom
      lastX == paddedWidth - padRight - PIV_PARAMS.windowWidth
      lastY == paddedHeight - padBottom - PIV_PARAMS.windowHeight
      nx == LoopCount(padLeft, lastX, PIV_PARAMS.stepSize)
      ny == LoopCount(padTop, lastY, PIV_PARAMS.stepSize)
  IN [m \in 1..(nx * ny) |->
        [x |-> padLeft + ((m - 1) % nx) * PIV_PARAMS.stepSize,
         y |-> padTop + ((m - 1) \div nx) * PIV_PARAMS.stepSize]]

\* Lines 203-204; the centres are integers for the even window sides
xCenter(w) == w.x - padLeft + PIV_PARAMS.windowWidth \div 2
yCenter(w) == w.y - padTop + PIV_PARAMS.windowHeight \div 2

\* Lines 207-208: the ROI test
InROI(w) ==
  /\ xCenter(w) >= PIV_PARAMS.roiXMin
  /\ xCenter(w) <= PIV_PARAMS.roiXMax
  /\ yCenter(w) >= PIV_PARAMS.roiYMin
  /\ yCenter(w) <= PIV_PARAMS.roiYMax

\* The windows the loop body processes
PairProcessed(fr) == SelectSeq(PairGrid(fr), InROI)

\* Lines 210-216 for one window
PairShift(p1, p2, w) ==
  ApodizedCorrelate(
    extractWindowPadded(p1, w.x, w.y, PIV_PARAMS.windowWidth,
                        PIV_PARAMS.windowHeight),
    extractWindowPadded(p2, w.x, w.y, PIV_PARAMS.windowWidth,
                        PIV_PARAMS.windowHeight),
    PIV_PARAMS.windowWidth, PIV_PARAMS.windowHeight)

\* ---- the outlier filter and the statistics, lines 228-295 ----
\* An element of filteredVectorsX / filteredVectorsY: a number or NaN
Value(v) == [nan |-> FALSE, val |-> v]
NaNValue == [nan |-> TRUE, val |-> 0]

\* Math.abs(v - mean) < PIV_PARAMS.threshold * std  (lines 237, 240) for
\* element i of vs: with N elements of sum S, |N v - S| < threshold *
\* sqrt(N * sum of squares - S^2), both sides squared.  For an empty vs the
\* mean is NaN and there is no element to test.
WithinThreshold(vs, i) ==
  LET d == Len(vs) * vs[i] - SeqSum(vs)
  IN d * d < PIV_PARAMS.threshold * PIV_PARAMS.threshold * SqDev(vs)

\* Lines 236-241: the filtered copy of one component
FilteredVectors(vs) ==
  Filled([i \in 1..Len(vs) |->
            IF WithinThreshold(vs, i) THEN Value(vs[i]) ELSE NaNValue])

\* Lines 249-252: j is pushed to neighbors for vector i
IsNeighbor(originsX, originsY, fx, fy, i, j) ==
  /\ Abs(originsX[j] - originsX[i]) <= PIV_PARAMS.stepSize
  /\ Abs(originsY[j] - originsY[i]) <= PIV_PARAMS.stepSize
  /\ ~fx[j].nan
  /\ ~fy[j].nan

\* Lines 258-262: the sorted neighbour values at index Math.floor(length / 2)
NeighborMedian(f, neighbors) ==
  Value(MedianOf([k \in 1..Len(neighbors) |-> f[neighbors[k]].val]))

\* Lines 244-265: the loop from vector i on (1-based), the arrays being
\* written in place; the value is the pair of arrays after the loop.
RECURSIVE LocalMedianLoop(_, _, _, _, _)
LocalMedianLoop(originsX, originsY, fx, fy, i) ==
  IF i > Len(originsX) THEN [x |-> fx, y |-> fy]
  ELSE IF fx[i].nan \/ fy[i].nan
       THEN LET Near(j) == IsNeighbor(originsX, originsY, fx, fy, i, j)
                neighbors == SelectSeq([j \in 1..Len(originsX) |-> j], Near)
            IN IF Len(neighbors) > 0
               THEN LocalMedianLoop(
                      originsX, originsY,
                      [fx EXCEPT ![i] = NeighborMedian(fx, neighbors)],
                      [fy EXCEPT ![i] = NeighborMedian(fy, neighbors)],
                      i + 1)
               ELSE LocalMedianLoop(originsX, originsY, fx, fy, i + 1)
       ELSE LocalMedianLoop(originsX, originsY, fx, fy, i + 1)

\* meanX, meanY (lines 230-231): 0 / 0 for an empty array
MeanOf(vs) == IF Len(vs) = 0 THEN NaN ELSE Number(SeqSum(vs), Len(vs))

\* stdX, stdY (lines 233-234), the fraction under the root
StdOf(vs) ==
  IF Len(vs) = 0 THEN NaN ELSE Number(SqDev(vs), Len(vs) * Len(vs))

\* q / p for a value q of a statistics block: NaN and -Infinity stay
Over(q, p) == IF q.kind = "number" THEN [q EXCEPT !.den = @ * p] ELSE q

\* Lines 268-295: the statistics block.  validVectors is taken from
\* filteredVectorsX alone; Math.max() of no argument is -Infinity.
PairStatistics(vectorsX, vectorsY, fx, cal) ==
  LET valid == SelectSeq(fx, LAMBDA e : ~e.nan)
      validVectors == [k \in 1..Len(valid) |-> valid[k].val]
      maxVelocity ==
        IF Len(valid) = 0 THEN NegInfinity
        ELSE Number(SeqMax([k \in 1..Len(valid) |-> Abs(validVectors[k])]), 1)
      avgVelocity ==
        IF Len(valid) = 0 THEN NaN
        ELSE Number(SeqSum(validVectors), Len(valid))
      pixelsPerMM ==
        IF cal.supplied /\ cal.pixelsPerMM # 0 THEN cal.pixelsPerMM ELSE 1
  IN [totalVectors |-> Len(vectorsX), validVectors |-> Len(valid),
      meanX |-> MeanOf(vectorsX), meanY |-> MeanOf(vectorsY),
      stdX |-> StdOf(vectorsX), stdY |-> StdOf(vectorsY),
      maxVelocity |-> maxVelocity, avgVelocity |-> avgVelocity,
      pixelsPerMM |-> pixelsPerMM,
      maxVelocityMM |-> Over(maxVelocity, pixelsPerMM),
      avgVelocityMM |-> Over(avgVelocity, pixelsPerMM)]

\* Lines 228-298: what processImagePair returns for the arrays the window
\* loop filled
PairResult(originsX, originsY, vectorsX, vectorsY, cal) ==
  LET filtered == LocalMedianLoop(originsX, originsY,
                                  FilteredVectors(vectorsX),
                                  FilteredVectors(vectorsY), 1)
  IN [originsX |-> originsX, originsY |-> originsY,
      vectorsX |-> filtered.x, vectorsY |-> filtered.y,
      statistics |-> PairStatistics(vectorsX, vectorsY, filtered.x, cal)]

\* A request to the old server: a frame with at most one bright pixel, and
\* either the same frame moved or a frame of another width.
InitOldServer ==
  /\ \E w \in PairWidths, h \in PairHeights :
       \E f1 \in {BrightFrame(w, h, {}, 0)}
                   \cup {BrightFrame(w, h, {a}, MaxPix) : a \in 1..(w * h)} :
         \/ \E d \in FrameShifts :
              pairFrame = [frame1 |-> f1,
                           frame2 |-> Translate(f1, d[1], d[2])]
         \/ pairFrame = [frame1 |-> f1,
                         frame2 |-> BrightFrame(w + 1, h, {}, 0)]
  /\ pairWindows = << >>
  /\ pairOrigins = << >>
  /\ pairVectors = << >>
  /\ pairOutcome = "none"
  /\ pairResult = NoResult
  /\ CorrIdle
  /\ GridIdle
  /\ BatchIdle
  /\ FilterIdle
  /\ ServerIdle
  /\ CameraIdle
  /\ PadIdle

\* Lines 156-158: frames of different dimensions throw
DimensionsDiffer(frame1, frame2) ==
  frame1.width # frame2.width \/ frame1.height # frame2.height

\* The window loop of lines 196-224 on decoded frames of equal dimensions:
\* the windows it processes, the centres and the shifts it pushes
WindowLoop(frame1, frame2) ==
  LET frame1Padded == PaddedFrame(frame1)
      frame2Padded == PaddedFrame(frame2)
      ws == PairProcessed(frame1)
  IN [windows |-> ws,
      origins |-> Filled([m \in 1..Len(ws) |->
                            [x |-> xCenter(ws[m]), y |-> yCenter(ws[m])]]),
      vectors |-> Filled([m \in 1..Len(ws) |->
                            PairShift(frame1Padded, frame2Padded, ws[m])])]

\* What processImagePair returns for the arrays of the window loop
\* (lines 228-298)
LoopResult(loop, cal) ==
  PairResult(Filled([m \in 1..Len(loop.origins) |-> loop.origins[m].x]),
             Filled([m \in 1..Len(loop.origins) |-> loop.origins[m].y]),
             Filled([m \in 1..Len(loop.vectors) |-> loop.vectors[m].x]),
             Filled([m \in 1..Len(loop.vectors) |-> loop.vectors[m].y]), cal)

\* POST /process of the old server (lines 319-351): processImagePair
\* (lines 150-303) on the decoded frames, with the calibration of the
\* request; an exception is answered with status 500.
ProcessImagePair ==
  /\ pairFrame # NoResult
  /\ pairOutcome = "none"
  /\ IF DimensionsDiffer(pairFrame.frame1, pairFrame.frame2)
     THEN /\ pairOutcome' = "error"
          /\ \E cal \in Calibrations :
               pairResult' = [calibration |-> cal, error |-> TRUE]
          /\ UNCHANGED << pairWindows, pairOrigins, pairVectors >>
     ELSE /\ pairWindows' = PairProcessed(pairFrame.frame1)
          /\ pairOrigins' = WindowLoop(pairFrame.frame1, pairFrame.frame2).origins
          /\ pairVectors' = WindowLoop(pairFrame.frame1, pairFrame.frame2).vectors
          /\ \E cal \in Calibrations :
               LET result == LoopResult([origins |-> pairOrigins',
                                         vectors |-> pairVectors'], cal)
               IN pairResult' = [calibration |-> cal, error |-> FALSE,
                                 vectorsX |-> result.vectorsX,
                                 vectorsY |-> result.vectorsY,
                                 statistics |-> result.statistics]
          /\ pairOutcome' = "returned"
  /\ UNCHANGED pairFrame
  /\ UNCHANGED corrVars
  /\ UNCHANGED gridVars
  /\ UNCHANGED << batchVars, filterVars >>
  /\ UNCHANGED << serverVars, cameraVars, padVars >>

\* Both servers are up and each is handed a request with dark frames
InitBoth ==
  /\ \E w \in 1..MaxDim, h \in 1..MaxDim :
       /\ image1 = BrightFrame(w, h, {}, 0)
       /\ image2 = image1
  /\ config \in {c \in Configs : c.overlapQ = 0 /\ c.searchRange = 1}
  /\ route = "process"
  /\ pc = "idle"
  /\ gx = 0
  /\ gy = 0
  /\ visited = << >>
  /\ vectors = << >>
  /\ outcome = "none"
  /\ response = NoResult
  /\ \E w \in PairWidths, h \in PairHeights :
       pairFrame = [frame1 |-> BrightFrame(w, h, {}, 0),
                    frame2 |-> BrightFrame(w, h, {}, 0)]
  /\ pairWindows = << >>
  /\ pairOrigins = << >>
  /\ pairVectors = << >>
  /\ pairOutcome = "none"
  /\ pairResult = NoResult
  /\ CorrIdle
  /\ BatchIdle
  /\ FilterIdle
  /\ ServerIdle
  /\ CameraIdle
  /\ PadIdle

(***************************************************************************)
(* POST /batch-process of the old server, src/unnamed/part_007:374-406.    *)
(***************************************************************************)
MaxFiles == 4        \* a batch request uploads 1..MaxFiles images

\* The decoded images of a batch request
BatchFrames ==
  {BrightFrame(2, 3, {}, 0), BrightFrame(2, 3, {1}, MaxPix),
   BrightFrame(4, 3, {}, 0)}

\* Sequences of length n over S
SeqsOfLength(S, n) == [1..n -> S]

\* What the try block of lines 385-391 pushes for one pair, and what the
\* catch block of lines 392-395 pushes when processImagePair throws
PairOutcome(frame1, frame2, cal) ==
  IF DimensionsDiffer(frame1, frame2)
  THEN [error |-> TRUE]
  ELSE LET result == LoopResult(WindowLoop(frame1, frame2), cal)
       IN [error |-> FALSE, vectorsX |-> result.vectorsX,
           vectorsY |-> result.vectorsY, statistics |-> result.statistics]

\* The pairs the loop of line 384 runs for: i = 0, 2, ... while
\* i < files.length - 1
BatchPairs(files) == 1..(Len(files) \div 2)

\* A batch request arrives at the old server
InitBatch ==
  /\ \E n \in 1..MaxFiles : batchFiles \in SeqsOfLength(BatchFrames, n)
  /\ batchResponse = NoResult
  /\ CorrIdle
  /\ GridIdle
  /\ PairIdle
  /\ FilterIdle
  /\ ServerIdle
  /\ CameraIdle
  /\ PadIdle

\* The handler of POST /batch-process (lines 374-406)
BatchProcess ==
  /\ batchFiles # << >>
  /\ batchResponse = NoResult
  /\ IF Len(batchFiles) < 2
     THEN batchResponse' = [status |-> 400, success |-> FALSE,
                            pairsProcessed |-> 0, results |-> << >>]
     ELSE \E cal \in Calibrations :
            LET results ==
                  Filled([k \in BatchPairs(batchFiles) |->
                            PairOutcome(batchFiles[2 * k - 1],
                                        batchFiles[2 * k], cal)])
            IN batchResponse' = [status |-> 200, success |-> TRUE,
                                 pairsProcessed |-> Len(results),
                                 results |-> results]
  /\ UNCHANGED batchFiles
  /\ UNCHANGED corrVars
  /\ UNCHANGED gridVars
  /\ UNCHANGED pairVars
  /\ UNCHANGED filterVars
  /\ UNCHANGED << serverVars, cameraVars, padVars >>

Init == InitServer \/ InitOldServer \/ InitBoth \/ InitBatch

Next == Call \/ Body \/ RowEnd \/ Respond \/ ProcessImagePair \/ BatchProcess

Spec == Init /\ [][Next]_vars

(***************************************************************************)
(* Properties of the grid and of the request pipelines.                    *)
(***************************************************************************)
ServerRequest == image1 # NoResult
OldRequest == pairFrame # NoResult

\* C1 -- Identity pair: with frameA = frameB (and a search range smaller
\* than the window), every window computePIVField visits whose template is
\* not flat gets displacement (0,0) from normalizedCrossCorrelation.
C1_IdentityPairZero ==
  (ServerRequest /\ image1 = image2
     /\ config.searchRange < config.interrogationWindow) =>
    \A k \in 1..Len(visited) :
      ~AllEqual(visited[k].window1) =>
        (visited[k].result.dx = 0 /\ visited[k].result.dy = 0)

\* C7 -- Degenerate config: a window larger than the frame's width or height
\* ends the request with an error, not with a returned field.
C7_OversizedWindowIsError ==
  /\ (ServerRequest /\ pc = "done"
        /\ (\/ config.interrogationWindow > image1.width
            \/ config.interrogationWindow > image1.height))
       => outcome = "error"
  /\ (OldRequest /\ pairOutcome # "none"
        /\ (\/ PIV_PARAMS.windowWidth > pairFrame.frame1.width
            \/ PIV_PARAMS.windowHeight > pairFrame.frame1.height))
       => pairOutcome = "error"

\* C8 -- Grid step and termination: the step is at least 1, so every step of
\* the grid loops that stays in the loops moves the position (x, y) forward.
C8_GridLoopAdvances ==
  [][(pc = "inner" /\ pc' = "inner") =>
       (gy' > gy \/ (gy' = gy /\ gx' > gx))]_vars

\* C9 -- Window bounds: every window the grid visits lies inside the usable
\* frame (the frame for computePIVField, the padded frame for
\* processImagePair), and processImagePair processes a window only if its
\* centre is inside the ROI.
C9_WindowsInsideFrame ==
  /\ ServerRequest =>
       \A k \in 1..Len(visited) :
         /\ visited[k].x >= 0
         /\ visited[k].x + config.interrogationWindow <= image1.width
         /\ visited[k].y >= 0
         /\ visited[k].y + config.interrogationWindow <= image1.height
  /\ OldRequest =>
       \A k \in 1..Len(pairWindows) :
         /\ pairWindows[k].x >= 0
         /\ pairWindows[k].x + PIV_PARAMS.windowWidth
              <= pairFrame.frame1.width + PIV_PARAMS.windowWidth
         /\ pairWindows[k].y >= 0
         /\ pairWindows[k].y + PIV_PARAMS.windowHeight
              <= pairFrame.frame1.height + PIV_PARAMS.windowHeight
         /\ 2 * pairOrigins[k].x
              = 2 * pairWindows[k].x - PIV_PARAMS.windowWidth
                + PIV_PARAMS.windowWidth
         /\ 2 * pairOrigins[k].y
              = 2 * pairWindows[k].y - PIV_PARAMS.windowHeight
                + PIV_PARAMS.windowHeight
         /\ pairOrigins[k].x >= PIV_PARAMS.roiXMin
         /\ pairOrigins[k].x <= PIV_PARAMS.roiXMax
         /\ pairOrigins[k].y >= PIV_PARAMS.roiYMin
         /\ pairOrigins[k].y <= PIV_PARAMS.roiYMax

\* Both grids have run: computePIVField visited several windows, and
\* processImagePair processed a window of a frame whose grid also has a
\* window with its centre outside the ROI.
C9_Witness ==
  /\ ServerRequest
  /\ pc = "done"
  /\ Len(visited) >= 2
  /\ OldRequest
  /\ pairOutcome = "returned"
  /\ Len(pairWindows) >= 1
  /\ Len(pairWindows) < Len(PairGrid(pairFrame.frame1))

\* C10 -- Tiling completeness: when computePIVField returns, every window
\* whose origin is a multiple of the step and whose extent fits in the
\* frame was visited, the one flush with the right/bottom edge included.
C10_EveryFittingWindowVisited ==
  (ServerRequest /\ pc = "done" /\ GridStep(config) >= 1) =>
    \A x \in 0..image1.width, y \in 0..image1.height :
      (/\ x % GridStep(config) = 0
       /\ y % GridStep(config) = 0
       /\ x + config.interrogationWindow <= image1.width
       /\ y + config.interrogationWindow <= image1.height)
        => \E k \in 1..Len(visited) : visited[k].x = x /\ visited[k].y = y

(***************************************************************************)
(* Field level: the filters and the statistics applied to a given field.   *)
(* The vectors of a field sit on one row of the grid, one step apart.      *)
(***************************************************************************)
MaxField == 5        \* the fields with one outlier have 1..MaxField vectors
MaxSmall == 3        \* the fields of arbitrary vectors have 0..MaxSmall vectors
RowLength == 11      \* the fields with a cut have RowLength vectors

\* The displacements of the arbitrary fields
FieldVectors == {<<0, 0>>, <<1, 0>>, <<0, 2>>, <<3, 4>>}

\* The field whose i-th vector has displacement d[i], on one row
Row(d) ==
  [i \in 1..Len(d) |->
     [x |-> PIV_PARAMS.stepSize * i, y |-> 0, u |-> d[i][1], v |-> d[i][2]]]

\* N vectors (1,0) but for the outlier (10,0) at position p
OutlierField(N, p) ==
  Row([i \in 1..N |-> IF i = p THEN <<10, 0>> ELSE <<1, 0>>])

\* RowLength vectors: u is 1 before position c and 0 from c on, v is 0; the
\* vector at a has u = 100 and the vector at b has v = 10.
CutField(a, b, c) ==
  Row([i \in 1..RowLength |->
         << IF i = a THEN 100 ELSE IF i < c THEN 1 ELSE 0,
            IF i = b THEN 10 ELSE 0 >>])

FieldsOfLength(n) == {Row(d) : d \in [1..n -> FieldVectors]}

InitFilter ==
  /\ \/ \E N \in 1..MaxField : \E p \in 1..N : field = OutlierField(N, p)
     \/ \E n \in 0..MaxSmall : field \in FieldsOfLength(n)
     \/ \E a \in 1..RowLength, b \in 1..RowLength :
          \E c \in {1, b, RowLength + 1} : field = CutField(a, b, c)
  /\ madResult = NoResult
  /\ statsResult = NoResult
  /\ localResult = NoResult
  /\ CorrIdle
  /\ GridIdle
  /\ PairIdle
  /\ BatchIdle
  /\ ServerIdle
  /\ CameraIdle
  /\ PadIdle

\* removeOutliers(vectors, PIV_CONFIG.outlierThreshold)  (part_006:376)
CallRemoveOutliers ==
  /\ madResult = NoResult
  /\ madResult' = [vectors |-> removeOutliers(field, OutlierThreshold)]
  /\ UNCHANGED << field, statsResult, localResult >>
  /\ UNCHANGED << corrVars, gridVars, pairVars, batchVars >>
  /\ UNCHANGED << serverVars, cameraVars, padVars >>

\* calculateStatistics(filtered, calibration?.pixelsPerMM)  (part_006:377)
CallCalculateStatistics ==
  /\ madResult # NoResult
  /\ statsResult = NoResult
  /\ \E cal \in Calibrations :
       statsResult' = [calibration |-> cal,
                       statistics |->
                         calculateStatistics(madResult.vectors, cal)]
  /\ UNCHANGED << field, madResult, localResult >>
  /\ UNCHANGED << corrVars, gridVars, pairVars, batchVars >>
  /\ UNCHANGED << serverVars, cameraVars, padVars >>

\* Lines 228-298 of processImagePair (part_007) on the field
CallLocalFilter ==
  /\ localResult = NoResult
  /\ \E cal \in Calibrations :
       LET n == Len(field)
           result == PairResult(Filled([i \in 1..n |-> field[i].x]),
                                Filled([i \in 1..n |-> field[i].y]),
                                Filled([i \in 1..n |-> field[i].u]),
                                Filled([i \in 1..n |-> field[i].v]), cal)
       IN localResult' = [calibration |-> cal,
                          vectorsX |-> result.vectorsX,
                          vectorsY |-> result.vectorsY,
                          statistics |-> result.statistics]
  /\ UNCHANGED << field, madResult, statsResult >>
  /\ UNCHANGED << corrVars, gridVars, pairVars, batchVars >>
  /\ UNCHANGED << serverVars, cameraVars, padVars >>

NextFilter == CallRemoveOutliers \/ CallCalculateStatistics \/ CallLocalFilter

SpecFilter == InitFilter /\ [][NextFilter]_vars

(***************************************************************************)
(* Properties of the filters and the statistics.                           *)
(***************************************************************************)
\* The field is one of those with a single outlier, at position p
IsOutlierField(p) ==
  /\ p \in 1..Len(field)
  /\ Len(field) <= MaxField
  /\ field = OutlierField(Len(field), p)

\* removeOutliers took exactly the vector at p out of the field
RejectsExactly(p) ==
  /\ Len(madResult.vectors) = Len(field) - 1
  /\ \A i \in 1..Len(madResult.vectors) :
       madResult.vectors[i] = field[IF i < p THEN i ELSE i + 1]

\* C11 -- Outlier rejection (MAD), as the code has it: in a field of at
\* least three vectors that are all (1,0) but for one outlier (10,0),
\* removeOutliers with threshold 3 rejects exactly the outlier and keeps the
\* other vectors unchanged.
C11_OutlierRejectedFromThree ==
  \A p \in 1..Len(field) :
    (IsOutlierField(p) /\ Len(field) >= 3 /\ madResult # NoResult)
      => RejectsExactly(p)

\* removeOutliers ran on a field of five vectors with the outlier inside
C11_Witness ==
  /\ IsOutlierField(2)
  /\ Len(field) = MaxField
  /\ madResult # NoResult
  /\ Len(madResult.vectors) = MaxField - 1

\* C11 as stated -- the same for every field size, the smallest included:
\* the outlier is rejected and the others are kept.
C11_OutlierRejectedEverySize ==
  \A p \in 1..Len(field) :
    (IsOutlierField(p) /\ madResult # NoResult) => RejectsExactly(p)

\* C12 -- Local replacement: for a field of vectors that are all (1,0) but
\* for one outlier (10,0), the filter of processImagePair leaves the outlier
\* with the value (1,0) and every other vector with its value (1,0).
C12_LocalReplacement ==
  \A p \in 1..Len(field) :
    (IsOutlierField(p) /\ Len(field) >= 3 /\ localResult # NoResult) =>
      \A i \in 1..Len(field) :
        /\ localResult.vectorsX[i] = Value(1)
        /\ localResult.vectorsY[i] = Value(0)

(***************************************************************************)
(* Properties of the responses.                                            *)
(***************************************************************************)
\* server.js has answered the request
Responded == ServerRequest /\ response # NoResult

\* processImagePair has returned a result for the request
PairReturned == OldRequest /\ pairOutcome = "returned"

\* Vector m of the old server's result is valid: neither component is NaN
PairValid(m) == ~pairResult.vectorsX[m].nan /\ ~pairResult.vectorsY[m].nan

\* The score phaseCorrelate gave vector m is at least minimum_correlation
PairCorrAtLeast(m, p, q) ==
  q * pairVectors[m].num
    >= p * pairVectors[m].cnt * HanningScale * HanningScale

\* C13 -- Minimum correlation: no vector of a returned field that is
\* presented as valid has a correlation score below minimum_correlation
\* (0.1), in the response of server.js and in the result of processImagePair.
C13_NoValidVectorBelowMinimum ==
  /\ Responded =>
       \A k \in 1..Len(response.vectors) :
         \E j \in 1..Len(visited) :
           /\ GridVector(visited[j].x, visited[j].y, config, visited[j].result)
                = response.vectors[k]
           /\ CorrAtLeast(visited[j].result, visited[j].window1,
                          MinCorrNum, MinCorrDen)
  /\ PairReturned =>
       \A m \in 1..Len(pairVectors) :
         PairValid(m) => PairCorrAtLeast(m, MinCorrNum, MinCorrDen)

\* C14 -- Rejected vectors stay in the field: the array removeOutliers
\* returns has every vector of the field it was given, at the same
\* position (rejected ones marked, not removed).
C14_RejectedVectorsStay ==
  madResult # NoResult =>
    /\ Len(madResult.vectors) = Len(field)
    /\ \A i \in 1..Len(madResult.vectors) :
         /\ madResult.vectors[i].x = field[i].x
         /\ madResult.vectors[i].y = field[i].y

\* The components of the field, and their copies after the global test
FieldX == [i \in 1..Len(field) |-> field[i].x]
FieldY == [i \in 1..Len(field) |-> field[i].y]
FieldU == [i \in 1..Len(field) |-> field[i].u]
FieldV == [i \in 1..Len(field) |-> field[i].v]
GlobalU == FilteredVectors(FieldU)
GlobalV == FilteredVectors(FieldV)

\* Vector i was flagged suspect by the global mean/std test
Suspect(i) == GlobalU[i].nan \/ GlobalV[i].nan

\* The neighbours of vector i (centres within one step on both axes) that
\* the global test did not flag
NonSuspectNeighbors(i) ==
  LET Near(j) == IsNeighbor(FieldX, FieldY, GlobalU, GlobalV, i, j)
  IN SelectSeq([j \in 1..Len(field) |-> j], Near)

\* C15 -- Local replacement uses only non-suspect neighbours: a suspect
\* vector that has non-suspect neighbours ends with the per-axis median of
\* those neighbours' values, whatever was written to other suspect vectors
\* earlier in the loop.
C15_OnlyNonSuspectNeighbours ==
  localResult # NoResult =>
    \A i \in 1..Len(field) :
      (Suspect(i) /\ Len(NonSuspectNeighbors(i)) > 0) =>
        /\ localResult.vectorsX[i]
             = NeighborMedian(GlobalU, NonSuspectNeighbors(i))
        /\ localResult.vectorsY[i]
             = NeighborMedian(GlobalV, NonSuspectNeighbors(i))

\* The vectors of the old server's filtered field that are valid: flagged
\* by neither test and holding a number in both components
LocalValid ==
  {i \in 1..Len(field) :
     ~Suspect(i) /\ ~localResult.vectorsX[i].nan /\ ~localResult.vectorsY[i].nan}

\* The sum of f over the finite set S
RECURSIVE SetSum(_, _)
SetSum(f, S) ==
  IF S = {} THEN 0
  ELSE LET i == CHOOSE j \in S : TRUE IN f[i] + SetSum(f, S \ {i})

\* The fractions a and b are the same number
SameNumber(a, b) ==
  a.kind = "number" /\ b.kind = "number" /\ a.num * b.den = b.num * a.den

\* C16 -- Statistics over valid vectors only: the mean of u and the maximum
\* velocity magnitude sqrt(u^2 + v^2) of a statistics block are those of
\* the vectors that are valid after filtering; for calculateStatistics
\* these are the vectors removeOutliers kept, for processImagePair the
\* vectors its filter neither rejected nor replaced.
C16_StatisticsOverValidOnly ==
  /\ (statsResult # NoResult /\ Len(madResult.vectors) > 0) =>
       LET kept == madResult.vectors
           n == Len(kept)
           st == statsResult.statistics
       IN /\ st.validVectors = n
          /\ SameNumber(st.meanU, Number(SeqSum([i \in 1..n |-> kept[i].u]), n))
          /\ SameNumber(st.meanV, Number(SeqSum([i \in 1..n |-> kept[i].v]), n))
          /\ \E i \in 1..n : st.maxVelocity = Number(Mag2(kept[i]), 1)
          /\ \A i \in 1..n : Mag2(kept[i]) <= st.maxVelocity.num
  /\ (localResult # NoResult /\ LocalValid # {}) =>
       LET st == localResult.statistics
       IN /\ st.validVectors = Cardinality(LocalValid)
          /\ SameNumber(st.meanX,
                        Number(SetSum(FieldU, LocalValid),
                               Cardinality(LocalValid)))
          /\ SameNumber(st.meanY,
                        Number(SetSum(FieldV, LocalValid),
                               Cardinality(LocalValid)))
          /\ st.maxVelocity.kind = "number"
          /\ \E i \in LocalValid :
               st.maxVelocity.num * st.maxVelocity.num = Mag2(field[i])
          /\ \A i \in LocalValid :
               Mag2(field[i]) <= st.maxVelocity.num * st.maxVelocity.num

\* A value of a statistics block is the number 0
IsZero(q) == q.kind = "number" /\ q.num = 0

\* C17 -- Empty field statistics: when no vector is valid, the mean, std and
\* velocity figures of the statistics block are all 0 (no NaN, no
\* Infinity), for calculateStatistics and for processImagePair.
C17_EmptyFieldStatisticsZero ==
  /\ (statsResult # NoResult /\ madResult.vectors = << >>) =>
       LET st == statsResult.statistics
       IN /\ st.totalVectors = 0
          /\ st.validVectors = 0
          /\ IsZero(st.meanU) /\ IsZero(st.meanV)
          /\ IsZero(st.stdU) /\ IsZero(st.stdV)
          /\ IsZero(st.maxVelocity)
          /\ st.avgVelocity.kind = "number"
          /\ \A k \in 1..Len(st.avgVelocity.roots) : st.avgVelocity.roots[k] = 0
  /\ (localResult # NoResult /\ localResult.statistics.validVectors = 0) =>
       LET st == localResult.statistics
       IN /\ IsZero(st.maxVelocity) /\ IsZero(st.avgVelocity)
          /\ IsZero(st.maxVelocityMM) /\ IsZero(st.avgVelocityMM)
          /\ field = << >> =>
               /\ IsZero(st.meanX) /\ IsZero(st.meanY)
               /\ IsZero(st.stdX) /\ IsZero(st.stdY)

\* The statistics block has the physical-unit figures
HasPhysicalFigures(st) ==
  {"maxVelocityMM", "avgVelocityMM"} \subseteq DOMAIN st

\* C18 -- Calibration: a statistics block has the physical-unit figures if
\* and only if the request supplied a calibration factor, and they are then
\* the pixel-domain figures divided by that factor.
C18_CalibrationIffSupplied ==
  /\ statsResult # NoResult =>
       LET st == statsResult.statistics
           cal == statsResult.calibration
       IN /\ HasPhysicalFigures(st) <=> cal.supplied
          /\ HasPhysicalFigures(st) =>
               /\ st.maxVelocityMM = RootOver(st.maxVelocity, cal.pixelsPerMM)
               /\ st.avgVelocityMM
                    = [st.avgVelocity EXCEPT !.den = @ * cal.pixelsPerMM]
  /\ localResult # NoResult =>
       LET st == localResult.statistics
           cal == localResult.calibration
       IN /\ HasPhysicalFigures(st) <=> cal.supplied
          /\ HasPhysicalFigures(st) =>
               /\ st.maxVelocityMM = Over(st.maxVelocity, cal.pixelsPerMM)
               /\ st.avgVelocityMM = Over(st.avgVelocity, cal.pixelsPerMM)

\* C19 -- Frame dimension mismatch: a request whose two frames differ in
\* width or height computes no correlation and ends in an error, never in a
\* successful response; for computePIVField under POST /process and
\* /process-realtime, and for processImagePair.
C19_MismatchAbortsBeforeCorrelation ==
  /\ (ServerRequest /\ DimensionsDiffer(image1, image2)) =>
       /\ visited = << >>
       /\ outcome # "returned"
       /\ response # NoResult => ~response.success
  /\ (OldRequest /\ DimensionsDiffer(pairFrame.frame1, pairFrame.frame2)) =>
       /\ pairWindows = << >>
       /\ pairOutcome # "returned"
       /\ pairResult # NoResult => pairResult.error

\* Pair k of the batch request fails: processImagePair throws on it
PairFails(k) ==
  DimensionsDiffer(batchFiles[2 * k - 1], batchFiles[2 * k])

\* C20 -- No partial results: when a frame pair of a batch request fails,
\* the response of POST /batch-process is an error and has no results for
\* the other pairs.
C20_NoPartialResults ==
  (/\ batchResponse # NoResult
   /\ \E k \in BatchPairs(batchFiles) : PairFails(k)) =>
    /\ ~batchResponse.success
    /\ batchResponse.results = << >>

(***************************************************************************)
(* The handlers of server.js, src/unnamed/part_006:301-464, as they run on *)
(* the event loop: a handler runs from one await to the next without       *)
(* interruption, and the handlers of other requests run in between.        *)
(*                                                                         *)
(* PIV_CONFIG holds the default configuration scaled down with the frames  *)
(* (window 64, overlap 0.5, searchRange 32 in the source).                 *)
(***************************************************************************)
MaxClock == 2        \* Date.now() is followed for the values 1..MaxClock
RequestIds == {1, 2}   \* the requests the server is sent

DefaultConfig ==
  [interrogationWindow |-> 2, overlapQ |-> 2, searchRange |-> 1,
   minCorrNum |-> MinCorrNum, minCorrDen |-> MinCorrDen,
   outlierThreshold |-> OutlierThreshold, subPixelAccuracy |-> TRUE]

\* The bodies sent to POST /config
ConfigBodies ==
  {[interrogationWindow |-> 1, overlapQ |-> 0],
   [interrogationWindow |-> 2, overlapQ |-> 2],
   [outlierThreshold |-> 2]}

\* Object.assign(PIV_CONFIG, req.body)  (line 462)
Assign(target, body) ==
  [k \in DOMAIN target |-> IF k \in DOMAIN body THEN body[k] ELSE target[k]]

HasNaN(w) == \E k \in 1..Len(w) : w[k] = NaNPixel

\* The correlation of lines 138-153 is NaN: count is 0, or a search pixel
\* that enters the sum is NaN
ScoreIsNaN(t, s, W, dx, dy) ==
  \/ NCCScore(t, s, W, dx, dy).cnt = 0
  \/ \E k \in 0..(W * W - 1) :
       /\ NCCInRange(s, W, dx, dy, k % W, k \div W)
       /\ s[NCCSearchIdx(W, dx, dy, k % W, k \div W) + 1] = NaNPixel

\* normalizedCrossCorrelation on a template without NaN and a search window
\* with NaN pixels: the first offset, in loop order, whose correlation is a
\* number that no other offset's exceeds (line 155 never passes on NaN)
NCCWithNaN(t, s, W, R) ==
  LET Offsets == {m \in 0..(OffsetCount(R) - 1) :
                    ~ScoreIsNaN(t, s, W, OffsetDx(R, m), OffsetDy(R, m))}
      Score(m) == NCCScore(t, s, W, OffsetDx(R, m), OffsetDy(R, m))
      Greater(m, n) == Score(m).num * Score(n).cnt > Score(n).num * Score(m).cnt
  IN IF TemplateFlat(t)
     THEN [flat |-> TRUE, set |-> TRUE, dx |-> 0, dy |-> 0, num |-> 0,
           cnt |-> 1]
     ELSE IF Offsets = {}
          THEN [flat |-> FALSE, set |-> FALSE, dx |-> 0, dy |-> 0, num |-> 0,
                cnt |-> 1]
          ELSE LET m == CHOOSE m \in Offsets :
                          \A n \in Offsets :
                            /\ ~Greater(n, m)
                            /\ n < m => Greater(m, n)
               IN [flat |-> FALSE, set |-> TRUE, dx |-> OffsetDx(R, m),
                   dy |-> OffsetDy(R, m), num |-> Score(m).num,
                   cnt |-> Score(m).cnt]

\* normalizedCrossCorrelation (lines 120-165) on windows that may hold NaN:
\* with a NaN in the template templateStd is NaN, line 133 does not return
\* and every correlation is NaN, so the result is (0, 0) with -Infinity.
correlateWindows(t, s, W, R) ==
  IF HasNaN(t)
  THEN [flat |-> FALSE, set |-> FALSE, dx |-> 0, dy |-> 0, num |-> 0, cnt |-> 1]
  ELSE IF HasNaN(s) THEN NCCWithNaN(t, s, W, R)
       ELSE normalizedCrossCorrelation(t, s, W, R)

\* computePIVField(image1, image2, config)  (lines 170-207) from the loop
\* variables x, y and the vectors pushed so far; terminates when the step
\* is positive.
RECURSIVE FieldLoop(_, _, _, _, _, _)
FieldLoop(img1, img2, cfg, x, y, acc) ==
  IF ~OuterTest(y, img1, cfg) THEN acc
  ELSE IF ~InnerTest(x, img1, cfg)
       THEN FieldLoop(img1, img2, cfg, 0, y + GridStep(cfg), acc)
       ELSE LET W == cfg.interrogationWindow
                window1 == extractWindow(img1.pixels, img1.width, img1.height,
                                         x, y, W)
                window2 == extractWindow(img2.pixels, img1.width, img1.height,
                                         x, y, W)
                result == correlateWindows(window1, window2, W,
                                           cfg.searchRange)
            IN IF CorrAtLeast(result, window1, cfg.minCorrNum, cfg.minCorrDen)
               THEN FieldLoop(img1, img2, cfg, x + GridStep(cfg), y,
                              Append(acc, GridVector(x, y, cfg, result)))
               ELSE FieldLoop(img1, img2, cfg, x + GridStep(cfg), y, acc)

computePIVField(img1, img2, cfg) == FieldLoop(img1, img2, cfg, 0, 0, << >>)

\* The images of the requests: a 3x3 frame with one bright pixel, and the
\* same frame with the pixel one column to the right
ServerFrames ==
  <<BrightFrame(3, 3, {1}, MaxPix), BrightFrame(3, 3, {2}, MaxPix)>>

\* The .raw files of a directory, in the order of the sort of line 82: full
\* frames of 3x3 bytes, a frame one byte long of 4 bytes, and one of 10
RawDirs ==
  LET A == ServerFrames[1].pixels
      B == ServerFrames[2].pixels
  IN {<< >>, <<A>>, <<A, B>>, <<A, B, A>>, <<A, SubSeq(B, 1, 4)>>,
      <<SubSeq(A, 1, 4), B>>, <<A, B \o <<0>>>>}

\* A request as it arrives.  POST /process: req.files.image1 and image2
\* (NoResult when the field is missing) and the calibration.  POST
\* /process-raw: the files of rawDataPath, width and height (0 when the body
\* lacks them) and the calibration.
NewRequests ==
  {[route |-> "process", image1 |-> f[1], image2 |-> f[2],
    rawFiles |-> << >>, width |-> 0, height |-> 0, calibration |-> cal] :
     f \in {<<ServerFrames[1], ServerFrames[1]>>,
            <<ServerFrames[1], ServerFrames[2]>>,
            <<ServerFrames[1], NoResult>>, <<NoResult, ServerFrames[1]>>},
     cal \in Calibrations}
  \cup
  {[route |-> "raw", image1 |-> NoResult, image2 |-> NoResult,
    rawFiles |-> d[1], width |-> d[2], height |-> 3,
    calibration |-> Calibration(2)] :
     d \in (RawDirs \X {3}) \cup {<<<< >>, 0>>}}

\* The locals of a handler that has not run yet
Started(req) ==
  [input |-> req, pc |-> "start", used |-> << >>, thresholds |-> << >>,
   resultId |-> 0, content |-> NoResult, response |-> NoResult]

\* server.js has started: PIV_CONFIG as written in lines 37-53, no request
InitRequests ==
  /\ PIV_CONFIG = DefaultConfig
  /\ clock = 1
  /\ requests = << >>
  /\ resultsDir = << >>
  /\ CorrIdle
  /\ GridIdle
  /\ PairIdle
  /\ BatchIdle
  /\ FilterIdle
  /\ CameraIdle
  /\ PadIdle

ServerUnchanged ==
  UNCHANGED << corrVars, gridVars, pairVars, batchVars, filterVars,
               cameraVars, padVars >>

\* The server.js process is running
ServerUp == PIV_CONFIG # NoResult

\* A client sends a request
Arrive ==
  /\ ServerUp
  /\ Len(requests) < Cardinality(RequestIds)
  /\ \E req \in NewRequests : requests' = Append(requests, Started(req))
  /\ UNCHANGED << PIV_CONFIG, clock, resultsDir >>
  /\ ServerUnchanged

\* res.status(400).json({ error })
BadRequest == [status |-> 400]

\* POST /process up to its first await (lines 363-371)
ProcessStart(r) ==
  /\ requests[r].input.route = "process"
  /\ requests[r].pc = "start"
  /\ IF requests[r].input.image1 = NoResult
        \/ requests[r].input.image2 = NoResult
     THEN requests' = [requests EXCEPT ![r].pc = "done",
                                       ![r].response = BadRequest]
     ELSE requests' = [requests EXCEPT ![r].pc = "decode1"]
  /\ UNCHANGED << PIV_CONFIG, clock, resultsDir >>
  /\ ServerUnchanged

\* img1 is decoded and the handler awaits img2 (lines 371-372)
ProcessDecoded(r) ==
  /\ requests[r].pc = "decode1"
  /\ requests' = [requests EXCEPT ![r].pc = "decode2"]
  /\ UNCHANGED << PIV_CONFIG, clock, resultsDir >>
  /\ ServerUnchanged

\* img2 is decoded: lines 375-386 up to the await of fs.writeFile, whose
\* argument JSON.stringify(...) is evaluated before the call
ProcessCompute(r) ==
  /\ requests[r].pc = "decode2"
  /\ LET img1 == requests[r].input.image1
         img2 == requests[r].input.image2
         vs == computePIVField(img1, img2, PIV_CONFIG)
         filtered == removeOutliers(vs, PIV_CONFIG.outlierThreshold)
         statistics == calculateStatistics(filtered,
                                           requests[r].input.calibration)
     IN requests' =
          [requests EXCEPT
             ![r].pc = "write",
             ![r].used = <<PIV_CONFIG>>,
             ![r].thresholds = <<PIV_CONFIG.outlierThreshold>>,
             ![r].resultId = clock,
             ![r].content = [vectors |-> filtered, statistics |-> statistics,
                             config |-> PIV_CONFIG]]
  /\ UNCHANGED << PIV_CONFIG, clock, resultsDir >>
  /\ ServerUnchanged

\* ProcessWritten with the config of the saved result read when the file
\* is written
ProcessWrittenLate(r) ==
  /\ requests[r].input.route = "process"
  /\ requests[r].pc = "write"
  /\ LET content == [requests[r].content EXCEPT !.config = PIV_CONFIG]
     IN /\ resultsDir' = (requests[r].resultId :> content) @@ resultsDir
        /\ requests' =
             [requests EXCEPT
                ![r].pc = "done",
                ![r].content = content,
                ![r].response = [status |-> 200,
                                 resultId |-> requests[r].resultId,
                                 vectors |-> content.vectors,
                                 statistics |-> content.statistics]]
  /\ UNCHANGED << PIV_CONFIG, clock >>
  /\ ServerUnchanged

\* fs.writeFile has written the file; res.json (lines 388-393)
ProcessWritten(r) ==
  /\ requests[r].input.route = "process"
  /\ requests[r].pc = "write"
  /\ resultsDir' = (requests[r].resultId :> requests[r].content) @@ resultsDir
  /\ requests' =
       [requests EXCEPT
          ![r].pc = "done",
          ![r].response = [status |-> 200, resultId |-> requests[r].resultId,
                           vectors |-> requests[r].content.vectors,
                           statistics |-> requests[r].content.statistics]]
  /\ UNCHANGED << PIV_CONFIG, clock >>
  /\ ServerUnchanged

\* POST /process-raw up to its await (lines 303-314)
RawStart(r) ==
  /\ requests[r].input.route = "raw"
  /\ requests[r].pc = "start"
  /\ IF requests[r].input.width = 0 \/ requests[r].input.height = 0
     THEN requests' = [requests EXCEPT ![r].pc = "done",
                                       ![r].response = BadRequest]
     ELSE requests' = [requests EXCEPT ![r].pc = "read"]
  /\ UNCHANGED << PIV_CONFIG, clock, resultsDir >>
  /\ ServerUnchanged

\* processRawBinaryFrames(rawDir, width, height)  (lines 78-95)
processRawBinaryFrames(rawFiles, width, height) ==
  Filled([i \in 1..Len(rawFiles) |->
            [pixels |-> rawFiles[i], width |-> width, height |-> height]])

\* results[i] computed from frames[i] alone
RawResultOneFrame(loaded, i, cfg, cal) ==
  LET vs == computePIVField(loaded[i], loaded[i], cfg)
      filtered == removeOutliers(vs, cfg.outlierThreshold)
  IN [pairIndex |-> i - 1, vectors |-> filtered,
      statistics |-> calculateStatistics(filtered, cal)]

\* results[i] of the loop of lines 323-333, with the configuration it reads
RawResult(loaded, i, cfg, cal) ==
  LET vs == computePIVField(loaded[i], loaded[i + 1], cfg)
      filtered == removeOutliers(vs, cfg.outlierThreshold)
  IN [pairIndex |-> i - 1, vectors |-> filtered,
      statistics |-> calculateStatistics(filtered, cal)]

\* frames.length < 1
NoFrames(loaded) == Len(loaded) < 1

\* frames.length < 2  (line 314)
TooFewFrames(loaded) == Len(loaded) < 2

\* The frames are loaded: lines 316-338 up to the await of fs.writeFile
RawCompute(r) ==
  /\ requests[r].pc = "read"
  /\ LET loaded == processRawBinaryFrames(requests[r].input.rawFiles,
                                          requests[r].input.width,
                                          requests[r].input.height)
         pairs == Len(loaded) - 1
     IN IF TooFewFrames(loaded)
        THEN requests' = [requests EXCEPT ![r].pc = "done",
                                          ![r].response = BadRequest]
        ELSE requests' =
               [requests EXCEPT
                  ![r].pc = "write",
                  ![r].used = [i \in 1..pairs |-> PIV_CONFIG],
                  ![r].thresholds =
                    [i \in 1..pairs |-> PIV_CONFIG.outlierThreshold],
                  ![r].resultId = clock,
                  ![r].content =
                    Filled([i \in 1..pairs |->
                              RawResult(loaded, i, PIV_CONFIG,
                                        requests[r].input.calibration)])]
  /\ UNCHANGED << PIV_CONFIG, clock, resultsDir >>
  /\ ServerUnchanged

\* fs.writeFile has written the file; res.json (lines 340-348)
RawWritten(r) ==
  /\ requests[r].input.route = "raw"
  /\ requests[r].pc = "write"
  /\ resultsDir' = (requests[r].resultId :> requests[r].content) @@ resultsDir
  /\ requests' =
       [requests EXCEPT
          ![r].pc = "done",
          ![r].response =
            [status |-> 200, resultId |-> requests[r].resultId,
             pairCount |-> Len(requests[r].content),
             results |-> [i \in 1..Len(requests[r].content) |->
                            requests[r].content[i].statistics]]]
  /\ UNCHANGED << PIV_CONFIG, clock >>
  /\ ServerUnchanged

\* POST /config (lines 461-464)
PostConfig ==
  /\ ServerUp
  /\ \E body \in ConfigBodies : PIV_CONFIG' = Assign(PIV_CONFIG, body)
  /\ PIV_CONFIG' # PIV_CONFIG
  /\ UNCHANGED << clock, requests, resultsDir >>
  /\ ServerUnchanged

\* A millisecond passes
Tick ==
  /\ ServerUp
  /\ clock < MaxClock
  /\ clock' = clock + 1
  /\ UNCHANGED << PIV_CONFIG, requests, resultsDir >>
  /\ ServerUnchanged

\* GET /result/:resultId (lines 441-449)
GetResult(resultId) ==
  IF resultId \in DOMAIN resultsDir
  THEN [status |-> 200, body |-> resultsDir[resultId]]
  ELSE [status |-> 404, body |-> NoResult]

\* The handlers of server.js and POST /batch-process of the old server
NextRequests ==
  \/ Arrive
  \/ BatchProcess
  \/ \E r \in 1..Len(requests) :
       \/ ProcessStart(r)
       \/ ProcessDecoded(r)
       \/ ProcessCompute(r)
       \/ ProcessWritten(r)
       \/ RawStart(r)
       \/ RawCompute(r)
       \/ RawWritten(r)
  \/ PostConfig
  \/ Tick

SpecRequests == (InitRequests \/ InitBatch) /\ [][NextRequests]_vars

\* The request supplies fewer than two frames
FewerThanTwo(req) ==
  IF req.route = "process"
  THEN req.image1 = NoResult \/ req.image2 = NoResult
  ELSE Len(req.rawFiles) < 2

\* C21 -- Insufficient data: a request of POST /process, POST /process-raw
\* or POST /batch-process that supplies fewer than two frames runs no PIV
\* computation, stores no result and is answered with an error.
C21_FewerThanTwoFramesIsError ==
  /\ \A r \in 1..Len(requests) :
       FewerThanTwo(requests[r].input) =>
         /\ requests[r].used = << >>
         /\ requests[r].content = NoResult
         /\ requests[r].pc # "write"
         /\ requests[r].resultId \notin DOMAIN resultsDir
         /\ requests[r].pc = "done" => requests[r].response = BadRequest
  /\ (batchResponse # NoResult /\ Len(batchFiles) < 2) =>
       /\ batchResponse.status = 400
       /\ batchResponse.results = << >>

\* A request with one raw frame and one with one image have been answered
C21_Witness ==
  /\ Len(requests) = 2
  /\ requests[1].input.route = "raw"
  /\ Len(requests[1].input.rawFiles) = 1
  /\ requests[1].input.width = 3
  /\ requests[1].response = BadRequest
  /\ requests[2].input.route = "process"
  /\ requests[2].input.image1 # NoResult
  /\ requests[2].input.image2 = NoResult
  /\ requests[2].response = BadRequest

\* A raw file of the request does not hold width x height bytes
IncompleteFrame(req) ==
  /\ req.route = "raw"
  /\ req.width # 0
  /\ \E i \in 1..Len(req.rawFiles) :
       Len(req.rawFiles[i]) # req.width * req.height

\* C22 -- Incomplete frame: a POST /process-raw request with a raw frame
\* whose byte length differs from width x height runs no correlation on it
\* and is answered with an error.
C22_IncompleteFrameIsError ==
  \A r \in 1..Len(requests) :
    IncompleteFrame(requests[r].input) =>
      /\ requests[r].used = << >>
      /\ requests[r].pc = "done" => requests[r].response.status # 200

\* The request was answered with a result
Answered(r) ==
  /\ requests[r].pc = "done"
  /\ requests[r].response # BadRequest

\* The vectors and statistics request r was answered with
ResultOf(r) ==
  IF requests[r].input.route = "process"
  THEN <<requests[r].response.vectors, requests[r].response.statistics>>
  ELSE <<requests[r].content, requests[r].response.results>>

\* C23 -- Pure function of the request: two answered requests with the same
\* frames and calibration have the same vectors and statistics, whatever
\* the server handled before or between them.
C23_SameRequestSameResult ==
  \A r1, r2 \in 1..Len(requests) :
    (/\ Answered(r1)
     /\ Answered(r2)
     /\ requests[r1].input = requests[r2].input) =>
      ResultOf(r1) = ResultOf(r2)

\* C24 -- Configuration is immutable for the duration of a request: within
\* one request of POST /process or POST /process-raw every frame pair is
\* correlated with the same configuration value, the outlier threshold is
\* that value's, and so is the config written into the saved result, under
\* every interleaving of POST /config with the steps of the request.
C24_OneConfigPerRequest ==
  \A r \in 1..Len(requests) :
    LET q == requests[r]
    IN /\ \A i \in 1..Len(q.used) :
            /\ q.used[i] = q.used[1]
            /\ q.thresholds[i] = q.used[1].outlierThreshold
       /\ (q.input.route = "process" /\ q.content # NoResult) =>
            q.content.config = q.used[1]

\* POST /config has changed PIV_CONFIG while a POST /process request and a
\* POST /process-raw request over three frames await their fs.writeFile
C24_Witness ==
  /\ Len(requests) = 2
  /\ \E r \in 1..2 :
       /\ requests[r].input.route = "process"
       /\ requests[r].pc = "write"
       /\ requests[r].used[1] # PIV_CONFIG
  /\ \E r \in 1..2 :
       /\ requests[r].input.route = "raw"
       /\ requests[r].pc = "write"
       /\ Len(requests[r].used) = 2
       /\ requests[r].used[1] # PIV_CONFIG

\* The frames of a POST /process-raw request, in sequence order
FramesOf(req) == processRawBinaryFrames(req.rawFiles, req.width, req.height)

\* Element i of the results of POST /process-raw is the result of frames i
\* and i + 1 of the request
RawResultFromPair(q, i) ==
  LET fs == FramesOf(q.input)
      filtered == removeOutliers(computePIVField(fs[i], fs[i + 1], q.used[i]),
                                 q.thresholds[i])
  IN /\ q.content[i].pairIndex = i - 1
     /\ q.content[i].vectors = filtered
     /\ q.response.results[i]
          = calculateStatistics(filtered, q.input.calibration)

\* Element k of the results of POST /batch-process is the result of files
\* a and b of the request
BatchResultFromPair(k, a, b) ==
  LET res == batchResponse.results[k]
  IN /\ res.error = DimensionsDiffer(batchFiles[a], batchFiles[b])
     /\ ~res.error =>
          LET expected == LoopResult(WindowLoop(batchFiles[a], batchFiles[b]),
                                     NoCalibration)
          IN /\ res.vectorsX = expected.vectorsX
             /\ res.vectorsY = expected.vectorsY

\* POST /process-raw on n >= 2 frames answers with n - 1 results, result i
\* from frames i and i + 1
RawOrdered ==
  \A r \in 1..Len(requests) :
    (requests[r].input.route = "raw" /\ Answered(r)) =>
      LET n == Len(requests[r].input.rawFiles)
      IN /\ requests[r].response.pairCount = n - 1
         /\ Len(requests[r].response.results) = n - 1
         /\ \A i \in 1..(n - 1) : RawResultFromPair(requests[r], i)

\* C25 -- Batch ordering: POST /process-raw on n >= 2 frames returns n - 1
\* results, result i from frames i and i + 1 in ascending i; POST
\* /batch-process on n >= 2 files returns one result per pair of files
\* (2k - 1, 2k), k = 1..floor(n / 2), in ascending k.
C25_BatchResultsInOrder ==
  /\ RawOrdered
  /\ (batchResponse # NoResult /\ Len(batchFiles) >= 2) =>
       /\ Len(batchResponse.results) = Len(batchFiles) \div 2
       /\ batchResponse.pairsProcessed = Len(batchFiles) \div 2
       /\ \A k \in 1..(Len(batchFiles) \div 2) :
            BatchResultFromPair(k, 2 * k - 1, 2 * k)

\* POST /batch-process has answered a request of three files whose second
\* and third files differ from the first in content or size
C25_Witness ==
  /\ Len(batchFiles) = 3
  /\ batchFiles[2] # batchFiles[1]
  /\ batchFiles[3] # batchFiles[2]
  /\ batchResponse # NoResult
  /\ Len(batchResponse.results) = 1

\* C25 as stated for both endpoints: one result per consecutive pair of
\* frames, result i from frames i and i + 1, n - 1 results
C25_ConsecutivePairsBothEndpoints ==
  /\ RawOrdered
  /\ (batchResponse # NoResult /\ Len(batchFiles) >= 2) =>
       /\ Len(batchResponse.results) = Len(batchFiles) - 1
       /\ \A i \in 1..(Len(batchFiles) - 1) : BatchResultFromPair(i, i, i + 1)

\* C29 -- Result identity under concurrency: distinct answered requests of
\* POST /process and POST /process-raw have distinct resultIds, and GET
\* /result/:resultId returns to each the result that request stored.
C29_DistinctResultIds ==
  \A r1, r2 \in 1..Len(requests) :
    (Answered(r1) /\ Answered(r2)) =>
      /\ r1 # r2 => requests[r1].resultId # requests[r2].resultId
      /\ GetResult(requests[r1].resultId)
           = [status |-> 200, body |-> requests[r1].content]

(***************************************************************************)
(* The padding of processImagePair, src/unnamed/part_007:160-192, on       *)
(* frames of every size from 1x1.                                          *)
(***************************************************************************)
MaxPadDim == 4       \* the frames are at most MaxPadDim x MaxPadDim

\* The frame whose pixel k has value k
IndexFrame(w, h) ==
  [width |-> w, height |-> h, pixels |-> [k \in 1..(w * h) |-> k]]

InitPad ==
  /\ \E w \in 1..MaxPadDim, h \in 1..MaxPadDim :
       padFrame \in {IndexFrame(w, h)}
                      \cup {BrightFrame(w, h, {a}, MaxPix) : a \in 1..(w * h)}
  /\ padResult = NoResult
  /\ CorrIdle
  /\ GridIdle
  /\ PairIdle
  /\ BatchIdle
  /\ FilterIdle
  /\ ServerIdle
  /\ CameraIdle

\* Lines 168-192 on frame1
PadFrame ==
  /\ padFrame # NoResult
  /\ padResult = NoResult
  /\ padResult' = PaddedFrame(padFrame)
  /\ UNCHANGED padFrame
  /\ UNCHANGED << corrVars, gridVars, pairVars, batchVars, filterVars,
                  serverVars, cameraVars >>

NextPad == PadFrame

SpecPad == InitPad /\ [][NextPad]_vars

\* C26 -- Reflective padding: every element of the padded buffer has its
\* reflected source coordinate inside the frame and holds that frame pixel,
\* for every frame size.
C26_PaddingReflectsInside ==
  padResult # NoResult =>
    \A k \in 1..Len(padResult.pixels) :
      LET srcX == PaddedSrcX(padFrame, k)
          srcY == PaddedSrcY(padFrame, k)
      IN /\ 0 <= srcX
         /\ srcX < padFrame.width
         /\ 0 <= srcY
         /\ srcY < padFrame.height
         /\ padResult.pixels[k] = padFrame.pixels[srcY * padFrame.width + srcX + 1]

\* The last window the grid loop of computePIVField ran on
LastVisited == visited[Len(visited)]

\* The correlation of the last window at offset (dx, dy)
LastScore(dx, dy) ==
  NCCScore(LastVisited.window1, LastVisited.window2,
           config.interrogationWindow, dx, dy)

ScorePositive(sc) == sc.cnt > 0 /\ sc.num > 0
ScoreEqual(a, b) == a.num * b.cnt = b.num * a.cnt

\* Three scores (before, peak, after) a three-point fit is defined on: all
\* positive and not all equal
Fittable(before, peak, after) ==
  /\ ScorePositive(before)
  /\ ScorePositive(peak)
  /\ ScorePositive(after)
  /\ ~(ScoreEqual(before, peak) /\ ScoreEqual(after, peak))

\* The last window has a vector whose integer optimum is inside the search
\* range
InteriorOptimum ==
  /\ ServerRequest
  /\ Len(visited) > 0
  /\ CorrAtLeast(LastVisited.result, LastVisited.window1, config.minCorrNum,
                 config.minCorrDen)
  /\ Abs(LastVisited.result.dx) < config.searchRange
  /\ Abs(LastVisited.result.dy) < config.searchRange

\* C27 -- Sub-pixel refinement: with subPixelAccuracy enabled, the optimum
\* inside the search range and the three scores along an axis positive,
\* the displacement reported on that axis is the three-point peak fit.  The
\* parabolic and the Gaussian fit both put the peak at the integer optimum
\* exactly when the scores before and after it are equal, and the reported
\* displacement is the integer optimum; so the two scores must be equal.
C27_SubPixelPeakFit ==
  (InteriorOptimum /\ config.subPixelAccuracy) =>
    LET dx == LastVisited.result.dx
        dy == LastVisited.result.dy
    IN /\ Fittable(LastScore(dx - 1, dy), LastScore(dx, dy),
                   LastScore(dx + 1, dy))
            => ScoreEqual(LastScore(dx - 1, dy), LastScore(dx + 1, dy))
       /\ Fittable(LastScore(dx, dy - 1), LastScore(dx, dy),
                   LastScore(dx, dy + 1))
            => ScoreEqual(LastScore(dx, dy - 1), LastScore(dx, dy + 1))

(***************************************************************************)
(* Camera2Module, src/unnamed/part_003: one capture session.  startCapture *)
(* and stopCapture run on the module's thread, processYPlane on the        *)
(* background handler thread, one image at a time (lines 153-158); the two *)
(* threads interleave at every access to isCapturing and circularBuffer.   *)
(* A frame is its number in the order the camera delivers the images.      *)
(* BUFFER_SIZE is 1000 in the source.                                      *)
(***************************************************************************)
BUFFER_SIZE == 3     \* capacity of circularBuffer
MaxFrames == 5       \* the camera delivers at most MaxFrames images

\* The module exists, the camera is open and the session is configured
InitCamera ==
  /\ isCapturing = FALSE
  /\ circularBuffer = << >>
  /\ arrived = << >>
  /\ callbackPc = "idle"
  /\ yData = 0
  /\ stopPc = "idle"
  /\ frameCount = 0
  /\ frames = << >>
  /\ frameFiles = << >>
  /\ metadata = NoResult
  /\ CorrIdle
  /\ GridIdle
  /\ PairIdle
  /\ BatchIdle
  /\ FilterIdle
  /\ ServerIdle
  /\ PadIdle

CameraUnchanged ==
  UNCHANGED << corrVars, gridVars, pairVars, batchVars, filterVars,
               serverVars, padVars >>

\* ArrayBlockingQueue.offer: the queue after the call (unchanged when full)
offer(queue, e) ==
  IF Len(queue) < BUFFER_SIZE THEN Append(queue, e) ELSE queue

\* A poll that removes the newest element
pollNewest(queue) ==
  IF queue = << >> THEN queue ELSE SubSeq(queue, 1, Len(queue) - 1)

\* ArrayBlockingQueue.poll: the queue without its head
poll(queue) ==
  IF queue = << >> THEN queue ELSE Tail(queue)

\* startCapture (lines 207-214 and the repeating request of lines 229-233)
startCapture ==
  /\ callbackPc # "none"
  /\ stopPc = "idle"
  /\ ~isCapturing
  /\ yData = 0
  /\ circularBuffer' = << >>
  /\ isCapturing' = TRUE
  /\ UNCHANGED << arrived, callbackPc, yData, stopPc, frameCount, frames,
                  frameFiles, metadata >>
  /\ CameraUnchanged

\* The repeating request delivers images from startCapture on, and images
\* in flight still arrive after stopRepeating
Delivering == isCapturing \/ stopPc \notin {"none", "idle"}

\* The value processYPlane reads from the field isCapturing, which is
\* written by the other thread without synchronisation: the current value,
\* or the TRUE stopCapture has overwritten
ReadsCapturing ==
  {isCapturing} \cup (IF stopPc \notin {"none", "idle"} THEN {TRUE} ELSE {})

\* processYPlane is called with the next image: the test of line 307 and
\* the copy of lines 311-317
FrameCallback ==
  /\ callbackPc = "idle"
  /\ Delivering
  /\ yData < MaxFrames
  /\ yData' = yData + 1
  /\ \E capturing \in ReadsCapturing :
       IF capturing
       THEN /\ callbackPc' = "offer"
            /\ arrived' = Append(arrived, yData + 1)
       ELSE UNCHANGED << callbackPc, arrived >>
  /\ UNCHANGED << isCapturing, circularBuffer, stopPc, frameCount, frames,
                  frameFiles, metadata >>
  /\ CameraUnchanged

\* if (!circularBuffer.offer(yData))  (line 320)
Offer ==
  /\ callbackPc = "offer"
  /\ circularBuffer' = offer(circularBuffer, yData)
  /\ callbackPc' = IF Len(circularBuffer) < BUFFER_SIZE THEN "idle" ELSE "poll"
  /\ UNCHANGED << isCapturing, arrived, yData, stopPc, frameCount, frames,
                  frameFiles, metadata >>
  /\ CameraUnchanged

\* circularBuffer.poll()  (line 321)
Poll ==
  /\ callbackPc = "poll"
  /\ circularBuffer' = poll(circularBuffer)
  /\ callbackPc' = "offerAgain"
  /\ UNCHANGED << isCapturing, arrived, yData, stopPc, frameCount, frames,
                  frameFiles, metadata >>
  /\ CameraUnchanged

\* circularBuffer.offer(yData)  (line 322)
OfferAgain ==
  /\ callbackPc = "offerAgain"
  /\ circularBuffer' = offer(circularBuffer, yData)
  /\ callbackPc' = "idle"
  /\ UNCHANGED << isCapturing, arrived, yData, stopPc, frameCount, frames,
                  frameFiles, metadata >>
  /\ CameraUnchanged

\* stopCapture: isCapturing = false and stopRepeating (lines 243-244)
StopBegin ==
  /\ stopPc = "idle"
  /\ isCapturing
  /\ isCapturing' = FALSE
  /\ stopPc' = "size"
  /\ UNCHANGED << circularBuffer, arrived, callbackPc, yData, frameCount,
                  frames, frameFiles, metadata >>
  /\ CameraUnchanged

\* val frameCount = circularBuffer.size  (line 247)
StopSize ==
  /\ stopPc = "size"
  /\ frameCount' = Len(circularBuffer)
  /\ stopPc' = "drain"
  /\ UNCHANGED << isCapturing, circularBuffer, arrived, callbackPc, yData,
                  frames, frameFiles, metadata >>
  /\ CameraUnchanged

\* circularBuffer.drainTo(frames)  (lines 253-254)
StopDrain ==
  /\ stopPc = "drain"
  /\ frames' = circularBuffer
  /\ circularBuffer' = << >>
  /\ stopPc' = "write"
  /\ UNCHANGED << isCapturing, arrived, callbackPc, yData, frameCount,
                  frameFiles, metadata >>
  /\ CameraUnchanged

\* The frame files and metadata.txt are written (lines 257-275)
StopWrite ==
  /\ stopPc = "write"
  /\ frameFiles' = frames
  /\ metadata' = [frameCount |-> frameCount]
  /\ stopPc' = "done"
  /\ UNCHANGED << isCapturing, circularBuffer, arrived, callbackPc, yData,
                  frameCount, frames >>
  /\ CameraUnchanged

NextCamera ==
  \/ startCapture
  \/ FrameCallback
  \/ Offer
  \/ Poll
  \/ OfferAgain
  \/ StopBegin
  \/ StopSize
  \/ StopDrain
  \/ StopWrite

SpecCamera == InitCamera /\ [][NextCamera]_vars

\* The last n elements of s
LastOf(s, n) == SubSeq(s, Len(s) - n + 1, Len(s))

\* The capture runs and processYPlane is between two images
Capturing ==
  /\ isCapturing
  /\ stopPc = "idle"
  /\ callbackPc = "idle"

\* C28 -- Circular frame buffer: the buffer never holds more than
\* BUFFER_SIZE frames, and during a capture, after n frame arrivals, it
\* holds the most recent min(n, BUFFER_SIZE) frames in arrival order.
C28_BufferHoldsMostRecent ==
  /\ Len(circularBuffer) <= BUFFER_SIZE
  /\ Capturing =>
       circularBuffer
         = LastOf(arrived, IF Len(arrived) < BUFFER_SIZE THEN Len(arrived)
                           ELSE BUFFER_SIZE)

\* During a capture more frames have arrived than the buffer holds, so the
\* oldest have been removed
C28_Witness ==
  /\ Capturing
  /\ Len(arrived) > BUFFER_SIZE + 1
  /\ Len(circularBuffer) = BUFFER_SIZE

\* C30 -- Stop/frame-callback race: the frameCount stopCapture writes to
\* metadata.txt equals the number of frame files it wrote, and no frame is
\* in the circular buffer after stopCapture has drained it.
C30_StopCountsDrainedFrames ==
  /\ stopPc = "done" => metadata.frameCount = Len(frameFiles)
  /\ stopPc \in {"write", "done"} => circularBuffer = << >>

=============================================================================
